---- MODULE Spec2Model ----
(***************************************************************************)
(* A model of the multi-signal scoring engine of digital-eye-deepfake-scan *)
(* (src/src/utils/deepfakeDetection.ts, behavioralAnalysis / aiModels /    *)
(* the earlier detection modules in src/unnamed, and the page's            *)
(* handleAnalysis).                                                        *)
(*                                                                         *)
(* Numbers.  The program computes in floating point.  A score, a           *)
(* confidence or a percentage x is held here as the integer x * Scale, so  *)
(* that every product, sum and division the modelled code performs on the  *)
(* sampled inputs is exact (a mean over 4 or 5 frames is rounded down to   *)
(* 1/Scale).  NaN is a value of its own, NaN.                              *)
(* Math.random() is a draw from RandomDraws (hundredths, in [0,1)); an ML  *)
(* score is a draw from MLScores (hundredths, in [0,1]).                   *)
(***************************************************************************)
EXTENDS Integers, Sequences, FiniteSets, TLC

VARIABLES
    \* ---- one call of a public analysis operation ------------------------
    pc,         \* "idle" | "called" | "awaitML" | "done"
    op,         \* the operation called, "none" when idle
    arg,        \* its argument: a username, a query/url, or a File record
    ml,         \* external ML adapter: "none" | "pending" | "resolved" | "loadFailed" | "inferFailed"
    mlOut,      \* the adapter's answer when resolved: [label, score]
    outcome,    \* "none" | "resolved" | "rejected": how the call's promise settled
    result,     \* the value the promise resolved with (NoResult otherwise)
    prevFail,   \* the last result a call returned from its catch path (NoResult: none yet)
    \* ---- BehavioralAnalyzer applied to one (username, platform) ----------
    username, platform, analyzed, structureScore, linguisticScore,
    patternScore,           \* analyzePatternMatching(username, patterns)
    suspiciousActivities,   \* identifySuspiciousActivities(...) of the resolved pattern
    reasons,                \* the reasons of the bot analyzer's result (NoReasons before)
    usernames,  \* the list handed to performNetworkAnalysis
    network,    \* the NetworkAnalysisResult it resolved with (NoNetwork before)
    \* ---- ComputerVisionAnalyzer applied to one ImageData ------------------
    imageData,          \* [width, height, fill]: the pixel buffer handed to the detectors
    compressionScore,   \* detectCompressionArtifacts(imageData) (NoScore before)
    \* ---- the temporal aggregation applied to one list of frame analyses ---
    confidences,        \* frameAnalyses.map(a => a.confidence), in whole points
    temporal,           \* what the aggregation gave (NoTemporal before)
    \* ---- the details map of one result of deepfakeDetection.ts ------------
    details,            \* [op, path, scores]: scores maps each signal to its score
    \* ---- the arithmetic helpers applied to one input each ------------------
    pair,               \* the two strings handed to calculateUsernameSimilarity
    similarity,         \* calculateUsernameSimilarity(pair[1], pair[2]) (NoSimilarity before)
    variance,           \* calculateVariance(confidences) (NoScore before)
    \* ---- AIModelManager and its callers -----------------------------------
    instances,          \* how many AIModelManager objects were constructed
    modelCache,         \* modelKey -> the cached model (0: none), a model being the
                        \*   number of the pipeline(...) call that produced it
    loadingPromises,    \* modelKey -> the number of the stored pipeline promise (0: none)
    pipelines,          \* the pipeline(...) calls so far: [key, device, state]
    callers,            \* each caller of a load method: where it is and what it got
    \* ---- initializeModel (part_003) and its callers -------------------------
    imageClassifier,    \* let imageClassifier = null: "null" | "webgpu" | "cpu"
    isModelLoading,     \* let isModelLoading = false
    initCallers,        \* each caller of initializeModel: where it is and what it got
    \* ---- the page (Index) ------------------------------------------------
    isAnalyzing,        \* useState(false)
    analysisProgress,   \* useState(0), in fixed point
    analysisStatus,     \* useState('')
    results,            \* useState([]): the entries, newest first
    progressInterval,   \* the setInterval of handleAnalysis: "none" | "running" | "cleared"
    resetTimer,         \* the pending setTimeout of handleAnalysis and the entry it adds
    pending,            \* the arguments of the handleAnalysis call in progress
    form                \* the username form of the selected tab: [type, username, error]

engineVars == <<pc, op, arg, ml, mlOut, outcome, result, prevFail>>
visionVars == <<imageData, compressionScore>>
temporalVars == <<confidences, temporal>>
helperVars == <<pair, similarity, variance>>
managerVars == <<instances, modelCache, loadingPromises, pipelines, callers>>
initVars == <<imageClassifier, isModelLoading, initCallers>>
loaderVars == <<managerVars, initVars>>
behaviorVars == <<username, platform, analyzed, structureScore, linguisticScore, patternScore,
                  suspiciousActivities, reasons>>
scoreVars  == <<behaviorVars, usernames, network,
                visionVars, temporalVars, details, helperVars, loaderVars>>
pageVars   == <<isAnalyzing, analysisProgress, analysisStatus, results, progressInterval, resetTimer,
                pending, form>>
vars       == <<engineVars, scoreVars, pageVars>>

-----------------------------------------------------------------------------
(* Fixed-point numbers *)

Scale == 12 * 100

Min(a, b) == IF a < b THEN a ELSE b
Max(a, b) == IF a > b THEN a ELSE b

\* n (a whole number of score points) as a scaled number
Pts(n) == n * Scale

\* Math.random() * n for a draw r of RandomDraws; score * 100 for an ML score
RandomTimes(r, n) == (r * n * Scale) \div 100

\* Math.random(): values of [0, 1), in hundredths
RandomDraws == {0, 40, 80, 99}

\* an ML score of [0, 1], in hundredths
MLScores == {0, 50, 100}

\* an integer no computation of the model reaches
NaN == 0 - 1000000000

\* JavaScript's a > b on numbers: false as soon as one side is NaN
Gt(a, b) == IF a = NaN \/ b = NaN THEN FALSE ELSE a > b

-----------------------------------------------------------------------------
(* Strings: the String.prototype methods and the regular expressions used  *)

Digits == {"0", "1", "2", "3", "4", "5", "6", "7", "8", "9"}

LowerLetters ==
    {"a", "b", "c", "d", "e", "f", "g", "h", "i", "j", "k", "l", "m",
     "n", "o", "p", "q", "r", "s", "t", "u", "v", "w", "x", "y", "z"}

UpperLetters ==
    {"A", "B", "C", "D", "E", "F", "G", "H", "I", "J", "K", "L", "M",
     "N", "O", "P", "Q", "R", "S", "T", "U", "V", "W", "X", "Y", "Z"}

charAt(s, i) == SubSeq(s, i, i)

LowerOf(c) ==
    CASE c = "A" -> "a" [] c = "B" -> "b" [] c = "C" -> "c" [] c = "D" -> "d"
      [] c = "E" -> "e" [] c = "F" -> "f" [] c = "G" -> "g" [] c = "H" -> "h"
      [] c = "I" -> "i" [] c = "J" -> "j" [] c = "K" -> "k" [] c = "L" -> "l"
      [] c = "M" -> "m" [] c = "N" -> "n" [] c = "O" -> "o" [] c = "P" -> "p"
      [] c = "Q" -> "q" [] c = "R" -> "r" [] c = "S" -> "s" [] c = "T" -> "t"
      [] c = "U" -> "u" [] c = "V" -> "v" [] c = "W" -> "w" [] c = "X" -> "x"
      [] c = "Y" -> "y" [] c = "Z" -> "z" [] OTHER -> c

\* the first n characters of s, lowercased
RECURSIVE lowerPrefix(_, _)
lowerPrefix(s, n) ==
    IF n = 0 THEN ""
    ELSE lowerPrefix(s, n - 1) \o LowerOf(charAt(s, n))

toLowerCase(s) == lowerPrefix(s, Len(s))

startsWith(s, w) == Len(w) <= Len(s) /\ SubSeq(s, 1, Len(w)) = w

endsWith(s, w) == Len(w) <= Len(s) /\ SubSeq(s, Len(s) - Len(w) + 1, Len(s)) = w

includes(s, w) ==
    \E t \in {s} : \E i \in 1..(Len(t) - Len(w) + 1) : SubSeq(t, i, i + Len(w) - 1) = w

\* /\d/.test(s)
hasDigit(s) == \E i \in 1..Len(s) : charAt(s, i) \in Digits

\* /_/.test(s)
hasUnderscore(s) == \E i \in 1..Len(s) : charAt(s, i) = "_"

\* /^[a-z]+\d{n,}$/.test(s), and with the i flag when ci
lettersThenDigits(s, n, ci) ==
    \E k \in 1..(Len(s) - n) :
        /\ \A i \in 1..k :
              charAt(s, i) \in (IF ci THEN LowerLetters \cup UpperLetters ELSE LowerLetters)
        /\ \A i \in (k + 1)..Len(s) : charAt(s, i) \in Digits

\* /^user\d+$/.test(s), and with the i flag when ci
userDigits(s, ci) ==
    /\ Len(s) > 4
    /\ (IF ci THEN toLowerCase(SubSeq(s, 1, 4)) ELSE SubSeq(s, 1, 4)) = "user"
    /\ \A i \in 5..Len(s) : charAt(s, i) \in Digits

\* /^(w1|w2|...)/i.test(s): the words are given in lower case
prefixI(s, words) == \E w \in words : startsWith(toLowerCase(s), w)

\* /(w1|w2|...)$/i.test(s)
suffixI(s, words) == \E w \in words : endsWith(toLowerCase(s), w)

\* RegExp.prototype.test for the expressions of botPatterns
test(p, s) ==
    CASE p.kind = "prefixI"           -> prefixI(s, p.words)
      [] p.kind = "suffixI"           -> suffixI(s, p.words)
      [] p.kind = "lettersThenDigits" -> lettersThenDigits(s, p.min, FALSE)
      [] p.kind = "userDigitsI"       -> userDigits(s, TRUE)

\* Array.prototype.filter(...).length, for a filter that keeps the indices of keep
filterLength(keep) == Cardinality(keep)

-----------------------------------------------------------------------------
(* BehavioralAnalyzer *)

Platforms == {"telegram", "twitter", "instagram"}

botPatterns ==
    [telegram |->
        [botKeywords |-> <<"bot", "auto", "service", "support", "official", "team",
                           "news", "channel", "update">>,
         humanKeywords |-> <<"real", "person", "user", "me", "myself", "human",
                             "individual", "genuine">>,
         suspiciousPatterns |->
            << [kind |-> "prefixI", words |-> {"bot_", "auto_", "service_"}, min |-> 0],
               [kind |-> "suffixI", words |-> {"_bot"}, min |-> 0],
               [kind |-> "lettersThenDigits", words |-> {}, min |-> 3],
               [kind |-> "prefixI", words |-> {"news_", "update_", "official_"}, min |-> 0] >>],
     twitter |->
        [botKeywords |-> <<"bot", "auto", "news", "updates", "crypto", "trading",
                           "signals", "official">>,
         humanKeywords |-> <<"real", "person", "human", "genuine", "authentic",
                             "individual">>,
         suspiciousPatterns |->
            << [kind |-> "lettersThenDigits", words |-> {}, min |-> 8],
               [kind |-> "suffixI", words |-> {"_bot"}, min |-> 0],
               [kind |-> "prefixI", words |-> {"crypto_", "trading_", "news_"}, min |-> 0],
               [kind |-> "userDigitsI", words |-> {}, min |-> 0] >>],
     instagram |->
        [botKeywords |-> <<"bot", "auto", "likes", "followers", "service", "shop", "store">>,
         humanKeywords |-> <<"real", "person", "authentic", "genuine", "me", "myself">>,
         suspiciousPatterns |->
            << [kind |-> "lettersThenDigits", words |-> {}, min |-> 6],
               [kind |-> "suffixI", words |-> {"_bot"}, min |-> 0],
               [kind |-> "prefixI", words |-> {"auto_", "shop_", "store_"}, min |-> 0],
               [kind |-> "suffixI", words |-> {".bot", ".service", ".shop"}, min |-> 0] >>]]

\* the sum analyzeUsernameStructure accumulates in score, in points
structurePoints(name, plat) ==
    LET lengthPts == IF Len(name) < 4 THEN 30
                     ELSE IF Len(name) > 20 THEN 20 ELSE 0
        hasNumbers == hasDigit(name)
        hasUnderscores == hasUnderscore(name)
        hasOnlyLowercase == name = toLowerCase(name)
        hasRandomPattern == lettersThenDigits(name, 3, FALSE)
        score == lengthPts
                 + (IF hasNumbers THEN 15 ELSE 0)
                 + (IF hasUnderscores THEN 10 ELSE 0)
                 + (IF hasOnlyLowercase /\ hasNumbers THEN 15 ELSE 0)
                 + (IF hasRandomPattern THEN 25 ELSE 0)
                 + (IF plat = "telegram" /\ endsWith(name, "bot") THEN 40 ELSE 0)
                 + (IF plat = "twitter" /\ userDigits(name, FALSE) THEN 35 ELSE 0)
                 + (IF plat = "instagram"
                       /\ (\E w \in {".shop", ".store", ".bot"} : endsWith(name, w))
                    THEN 30 ELSE 0)
    IN  score

\* a variant that returns score itself
analyzeUsernameStructure_uncapped(name, plat) == structurePoints(name, plat)

\* a variant whose platform rules do not look at the platform
analyzeUsernameStructure_anyPlatform(name, plat) ==
    Min(Max(structurePoints(name, "telegram"),
            Max(structurePoints(name, "twitter"), structurePoints(name, "instagram"))), 100)

\* the score is a whole number of points here; callers scale it
analyzeUsernameStructure(name, plat) == Min(structurePoints(name, plat), 100)

botKeywordMatches(name, patterns) ==
    filterLength({i \in 1..Len(patterns.botKeywords) :
                     includes(toLowerCase(name), patterns.botKeywords[i])})

humanKeywordMatches(name, patterns) ==
    filterLength({i \in 1..Len(patterns.humanKeywords) :
                     includes(toLowerCase(name), patterns.humanKeywords[i])})

suspiciousMatches(name, patterns) ==
    filterLength({i \in 1..Len(patterns.suspiciousPatterns) :
                     test(patterns.suspiciousPatterns[i], name)})

\* a variant that floors the keyword terms before the pattern term is added
analyzeLinguisticPatterns_earlyFloor(name, patterns) ==
    Min(Max(0, botKeywordMatches(name, patterns) * 20 - humanKeywordMatches(name, patterns) * 15)
            + suspiciousMatches(name, patterns) * 25,
        100)

analyzeLinguisticPatterns(name, patterns) ==
    LET score == botKeywordMatches(name, patterns) * 20
                 - humanKeywordMatches(name, patterns) * 15
                 + suspiciousMatches(name, patterns) * 25
    IN  Max(0, Min(score, 100))

\* /^[a-z]+_\d+$/.test(s)
lettersUnderscoreDigits(s) ==
    \E k \in 2..(Len(s) - 1) :
        /\ charAt(s, k) = "_"
        /\ \A i \in 1..(k - 1) : charAt(s, i) \in LowerLetters
        /\ \A i \in (k + 1)..Len(s) : charAt(s, i) \in Digits

\* /^(w1|w2|...)\d+$/i.test(s)
wordThenDigits(s, words) ==
    \E w \in words :
        /\ Len(s) > Len(w)
        /\ startsWith(toLowerCase(s), w)
        /\ \A i \in (Len(w) + 1)..Len(s) : charAt(s, i) \in Digits

\* commonBotPatterns.filter(pattern => pattern.test(username)).length
commonBotPatternMatches(name) ==
      (IF prefixI(name, {"auto_", "bot_", "service_", "support_", "official_", "news_",
                         "update_", "crypto_", "trading_"}) THEN 1 ELSE 0)
    + (IF suffixI(name, {"_bot", "_service", "_auto", "_news", "_official"}) THEN 1 ELSE 0)
    + (IF lettersUnderscoreDigits(name) THEN 1 ELSE 0)
    + (IF wordThenDigits(name, {"user", "account", "profile"}) THEN 1 ELSE 0)

\* Math.log2(n) in millionths, for the counts and lengths of the usernames
log2Millionths ==
    <<0, 1000000, 1584963, 2000000, 2321928, 2584963, 2807355, 3000000, 3169925, 3321928,
      3459432, 3584963, 3700440, 3807355, 3906891, 4000000, 4087463, 4169925, 4247928,
      4321928, 4392317, 4459432, 4523562, 4584963>>

\* freq[char] of calculateStringEntropy for the character at position i
freqAt(str, i) == Cardinality({j \in 1..Len(str) : charAt(str, j) = charAt(str, i)})

RECURSIVE sumLogFreq(_, _)
sumLogFreq(str, n) ==
    IF n = 0 THEN 0 ELSE log2Millionths[freqAt(str, n)] + sumLogFreq(str, n - 1)

\* calculateStringEntropy, in millionths: the sum over the characters of
\* -(count / length) * log2(count / length) is log2(length) minus the mean over the
\* positions of log2(count of the character there)
calculateStringEntropy(str) ==
    IF Len(str) = 0 THEN 0
    ELSE (Len(str) * log2Millionths[Len(str)] - sumLogFreq(str, Len(str))) \div Len(str)

\* analyzePatternMatching, in points
analyzePatternMatching(name) ==
    LET entropy == calculateStringEntropy(name)
        score == commonBotPatternMatches(name) * 30
                 + (IF entropy < 2500000 THEN 20 ELSE 0)
                 + (IF entropy > 4500000 THEN 15 ELSE 0)
    IN  Min(score, 100)

\* the platform-specific draw of identifySuspiciousActivities: the sentence and the
\* value Math.random() has to exceed, in hundredths
platformActivity ==
    [telegram  |-> [over |-> 70, sentence |-> "Automated messaging patterns detected"],
     twitter   |-> [over |-> 80, sentence |-> "Coordinated retweeting behavior"],
     instagram |-> [over |-> 75, sentence |-> "Artificial engagement patterns"]]

\* identifySuspiciousActivities, for the draw r of the platform's Math.random()
identifySuspiciousActivities(structure, linguistic, pattern, plat, r) ==
       (IF structure > 50 THEN <<"Suspicious username structure detected">> ELSE <<>>)
    \o (IF linguistic > 60 THEN <<"Bot-like linguistic patterns identified">> ELSE <<>>)
    \o (IF pattern > 70 THEN <<"Matches known bot naming conventions">> ELSE <<>>)
    \o (IF r > platformActivity[plat].over THEN <<platformActivity[plat].sentence>> ELSE <<>>)

-----------------------------------------------------------------------------
(* The inputs of the public operations *)

\* usernames handed to the bot analyzers
EngineUsernames == {"crypto_trading_bot", "john_doe", "user12345"}

\* String.prototype.trim, for texts whose only white space is " "
RECURSIVE trimStart(_)
trimStart(s) ==
    IF Len(s) > 0 /\ charAt(s, 1) = " " THEN trimStart(SubSeq(s, 2, Len(s))) ELSE s

RECURSIVE trimEnd(_)
trimEnd(s) ==
    IF Len(s) > 0 /\ charAt(s, Len(s)) = " " THEN trimEnd(SubSeq(s, 1, Len(s) - 1)) ELSE s

trim(s) == trimEnd(trimStart(s))

\* s.replace(/^@/, '')
stripLeadingAt(s) == IF startsWith(s, "@") THEN SubSeq(s, 2, Len(s)) ELSE s

\* const cleanUsername = username.trim().replace(/^@/, '') of the three forms
cleanUsernameOf(text) == stripLeadingAt(trim(text))

\* the texts a user types into the username input of a form
FormTexts == {" ", "@", " @Bot ", "j.d", "a", "b d"}

\* analyzer.analyzeLinguisticPatterns(username, analyzer.botPatterns[platform]),
\* for the usernames handed to the bot analyzers
linguisticSimilarityOf ==
    [name \in EngineUsernames \cup {cleanUsernameOf(text) : text \in FormTexts} |->
        [plat \in Platforms |-> analyzeLinguisticPatterns(name, botPatterns[plat])]]

\* queries and urls handed to the monitoring / social-media operations
Queries == {"election news", "instagram.com/p/deepfake"}

\* the File objects handed to the image and video operations, by name:
\* large is size > 10 * 1024 * 1024, imageType is type.startsWith('image/'),
\* decodes is whether the browser can decode it (img.onload fires, not img.onerror)
FileOf(n) ==
    CASE n = "photo.jpg"       -> [name |-> n, large |-> FALSE, imageType |-> TRUE,  decodes |-> TRUE]
      [] n = "ai_generated.bin" -> [name |-> n, large |-> TRUE,  imageType |-> FALSE, decodes |-> FALSE]

FileNames == {"photo.jpg", "ai_generated.bin"}

\* what the external ML adapter can answer: a label and the scores of the
\* returned list, best first (results[0].score is scores[1])
MLLabels == {"positive", "NEGATIVE", "LABEL_1"}

MLAnswers ==
    {[label |-> l, scores |-> sc] :
        l \in MLLabels,
        sc \in {<<a>> : a \in MLScores}
               \cup {sc \in MLScores \X MLScores : sc[2] <= sc[1]}}

NoAnswer == [label |-> "none", scores |-> <<>>]

NoResult == [path |-> "none", confidence |-> 0, flag |-> FALSE,
             sentiment |-> "none", riskLevel |-> "none"]

NoFail == [op |-> "none", arg |-> "none", confidence |-> 0, flag |-> FALSE]

\* the operations of src/src/utils/deepfakeDetection.ts
CurrentOps == {"analyzeImage", "analyzeVideo", "analyzeTelegramBot", "analyzeTwitterBot",
               "analyzeInstagramBot", "analyzeSocialMediaMonitoring"}

ArgsOf(o) ==
    CASE o \in {"analyzeImage", "analyzeVideo", "analyzeImage_part002", "analyzeVideo_part002",
                "analyzeImage_part003", "analyzeVideo_part003"} -> FileNames
      [] o \in {"analyzeTelegramBot", "analyzeTwitterBot", "analyzeInstagramBot",
                "analyzeTelegramBot_part002"} -> EngineUsernames
      [] o \in {"analyzeSocialMediaMonitoring", "analyzeSocialMedia_part002",
                "analyzeSocialMedia_part003"} -> Queries

\* operations that await the external ML adapter (model load, then inference)
UsesML(o) == o \notin {"analyzeVideo", "analyzeSocialMedia_part003"}

\* x || d on a score: 0 (like undefined) is falsy
OrDefault(x, d) == IF x = 0 THEN d ELSE x

-----------------------------------------------------------------------------
(* ComputerVisionAnalyzer, as far as the public operations read it *)

\* the value a detector computes before its Math.min(..., 100), in points
RawSignals == {0, 60, 400}

\* Math.min(raw, 100) of detectCompressionArtifacts, detectResamplingArtifacts,
\* detectEdgeAnomalies and analyzeColorDistribution
capSignal(raw) == Min(Pts(raw), Pts(100))

\* analyzeImageForManipulation(...).manipulationScore
manipulationScore(compression, resampling, edge, color) ==
    (capSignal(compression) + capSignal(resampling) + capSignal(edge) + capSignal(color)) \div 4

\* ImageData.data[idx] of a buffer filled as imageData.fill says: every channel of a
\* pixel holds the same byte, 0 everywhere ("zero"), or 0 and FaintByte / StrongByte
\* on alternating pixels ("faint" / "checker")
FaintByte == 4
StrongByte == 16

dataAt(img, idx) ==
    LET p == idx \div 4
        x == p % img.width
        y == p \div img.width
        lit == (x + y) % 2 = 1
    IN  CASE img.fill = "faint" -> IF lit THEN FaintByte ELSE 0
          [] img.fill = "checker" -> IF lit THEN StrongByte ELSE 0
          [] OTHER -> 0

\* 0.299 * data[idx] + 0.587 * data[idx + 1] + 0.114 * data[idx + 2], in thousandths
grayAt(img, x, y) ==
    LET idx == (y * img.width + x) * 4
    IN  299 * dataAt(img, idx) + 587 * dataAt(img, idx + 1) + 114 * dataAt(img, idx + 2)

\* the two nested loops of calculateBlockVariance over the 8x8 block at
\* (startX, startY), pixel k of 64 being (startX + k % 8, startY + k \div 8)
RECURSIVE blockSum(_, _, _, _)
blockSum(img, startX, startY, k) ==
    IF k = 0 THEN 0
    ELSE grayAt(img, startX + ((k - 1) % 8), startY + ((k - 1) \div 8))
            + blockSum(img, startX, startY, k - 1)

RECURSIVE blockSquares(_, _, _, _, _)
blockSquares(img, startX, startY, mean, k) ==
    IF k = 0 THEN 0
    ELSE LET d == grayAt(img, startX + ((k - 1) % 8), startY + ((k - 1) \div 8)) - mean
         IN  (d * d) \div 1000 + blockSquares(img, startX, startY, mean, k - 1)

\* calculateBlockVariance: variance / count, in thousandths
calculateBlockVariance(img, startX, startY) ==
    LET count == 64
        mean == blockSum(img, startX, startY, count) \div count
    IN  blockSquares(img, startX, startY, mean, count) \div count

\* the block origins the loops of detectCompressionArtifacts visit:
\* for (v = 0; v < side - 8; v += 8)
blockOrigins(side) == {v \in 0..(side - 9) : v % 8 = 0}

\* detectCompressionArtifacts(imageData), in fixed point; with a zero width or height no
\* block is visited and the quotient is 0 / 0: Math.min(NaN, 100) is NaN
detectCompressionArtifacts(img) ==
    LET artifacts == Cardinality({o \in blockOrigins(img.width) \X blockOrigins(img.height) :
                                     calculateBlockVariance(img, o[1], o[2]) < 10 * 1000})
    IN  IF img.width * img.height = 0 THEN NaN
        ELSE Min((artifacts * 6400 * Scale) \div (img.width * img.height), Pts(100))

\* suspiciousFrames.length / frameCount * 100, in points
SuspiciousRatios == {0, 20, 100}

\* analyzeVideoForManipulation(...).manipulationScore
videoManipulationScore(rc, rt, ra, ratio) ==
    LET frameConsistency == Pts(85) + RandomTimes(rc, 10)
        temporalArtifacts == RandomTimes(rt, 30)
        compressionArtifacts == RandomTimes(ra, 25)
    IN  ((Pts(100) - frameConsistency) + temporalArtifacts + compressionArtifacts + Pts(ratio))
            \div 4

-----------------------------------------------------------------------------
(* src/src/utils/deepfakeDetection.ts: results *)

Normal(confidence, flag) ==
    [path |-> "normal", confidence |-> confidence, flag |-> flag,
     sentiment |-> "none", riskLevel |-> "none"]

Fallback(confidence, flag) ==
    [path |-> "fallback", confidence |-> confidence, flag |-> flag,
     sentiment |-> "none", riskLevel |-> "none"]

fallbackImageAnalysis(r1, r2) == Fallback(Pts(25) + RandomTimes(r1, 30), r2 > 70)

fallbackVideoAnalysis(r1, r2) == Fallback(Pts(30) + RandomTimes(r1, 25), r2 > 75)

fallbackTelegramAnalysis(name, r1, r2) ==
    Fallback(Pts(45) + RandomTimes(r1, 30), includes(toLowerCase(name), "bot") \/ r2 > 60)

fallbackTwitterAnalysis(name, r1, r2) == Fallback(Pts(50) + RandomTimes(r1, 25), r2 > 65)

fallbackInstagramAnalysis(name, r1, r2) == Fallback(Pts(48) + RandomTimes(r1, 27), r2 > 63)

Sentiments == <<"positive", "negative", "neutral">>
RiskLevels == <<"low", "medium", "high">>

\* Math.floor(Math.random() * 3) for a draw r
RandomIndex3(r) == (r * 3) \div 100

fallbackSocialMediaAnalysis(r1, r2, r3) ==
    [path |-> "fallback", confidence |-> Pts(55) + RandomTimes(r1, 25), flag |-> FALSE,
     sentiment |-> Sentiments[RandomIndex3(r2) + 1],
     riskLevel |-> RiskLevels[RandomIndex3(r3) + 1]]

\* the normal-path results, from the signals and the draws
imageResult(ms, r) ==
    LET confidence == Min(ms + RandomTimes(r, 20), Pts(95))
    IN  Normal(confidence, Gt(confidence, Pts(60)))

videoResult(ms, r) ==
    LET confidence == Min(ms + RandomTimes(r, 15), Pts(95))
    IN  Normal(confidence, Gt(confidence, Pts(65)))

telegramResult(linguisticSimilarity, r, score) ==
    LET confidence ==
            Min((Pts(linguisticSimilarity) + RandomTimes(r, 30) + Pts(OrDefault(score, 50))) \div 2,
                Pts(95))
    IN  Normal(confidence, Gt(confidence, Pts(55)))

twitterResult(linguisticSimilarity, engagementVelocity, r) ==
    LET confidence ==
            Min((Pts(linguisticSimilarity) + engagementVelocity + RandomTimes(r, 20)) \div 2,
                Pts(95))
    IN  Normal(confidence, Gt(confidence, Pts(60)))

instagramResult(linguisticSimilarity, engagementVelocity, score) ==
    LET confidence ==
            Min((Pts(linguisticSimilarity) + engagementVelocity + Pts(OrDefault(score, 50))) \div 3,
                Pts(95))
    IN  Normal(confidence, Gt(confidence, Pts(58)))

monitoringResult(answer) ==
    LET label == toLowerCase(answer.label)
        sentiment == IF includes(label, "positive") THEN "positive"
                     ELSE IF includes(label, "negative") THEN "negative" ELSE "neutral"
        confidence == Min(Pts(OrDefault(answer.scores[1], 70)), Pts(95))
    IN  [path |-> "normal", confidence |-> confidence, flag |-> FALSE,
         sentiment |-> sentiment,
         riskLevel |-> IF sentiment = "negative" THEN "high"
                       ELSE IF sentiment = "neutral" THEN "medium" ELSE "low"]

\* the reasons of the results of analyzeTelegramBot, analyzeTwitterBot and
\* analyzeInstagramBot: isBot ? [...].concat(behaviorResults.suspiciousActivities) : [...]
botSentences ==
    [telegram  |-> <<"Username matches known bot patterns",
                     "AI NLP models detect automated characteristics",
                     "Behavioral analysis indicates non-human patterns",
                     "Linguistic structure suggests automation">>,
     twitter   |-> <<"AI models detect bot-like behavioral patterns",
                     "Twitter-specific bot indicators identified",
                     "Temporal analysis reveals automated activity",
                     "Engagement patterns suggest non-human behavior">>,
     instagram |-> <<"AI models identify Instagram bot characteristics",
                     "Visual analysis suggests automated content",
                     "Engagement patterns indicate artificial activity",
                     "Username structure matches bot conventions">>]

humanSentences ==
    [telegram  |-> <<"Username appears human-generated",
                     "AI models confirm human-like characteristics",
                     "Behavioral patterns indicate genuine user">>,
     twitter   |-> <<"Behavioral patterns indicate human user",
                     "AI analysis confirms authentic account characteristics",
                     "Temporal activity shows natural human patterns">>,
     instagram |-> <<"Account characteristics suggest human user",
                     "AI analysis confirms authentic engagement patterns",
                     "Visual content analysis shows human creativity">>]

reasonsOf(plat, isBot, activities) ==
    IF isBot THEN botSentences[plat] \o activities ELSE humanSentences[plat]

\* the result of the bot analyzer of a platform, from the resolved pattern, the draw r
\* of the confidence, the engagement velocity and the ML score
botResult(plat, linguisticSimilarity, engagementVelocity, r, score) ==
    CASE plat = "telegram"  -> telegramResult(linguisticSimilarity, r, score)
      [] plat = "twitter"   -> twitterResult(linguisticSimilarity, engagementVelocity, r)
      [] plat = "instagram" -> instagramResult(linguisticSimilarity, engagementVelocity, score)

\* BehavioralAnalyzer.simulateEngagementVelocity, for a draw r
simulateEngagementVelocity(r) == RandomTimes(r, 100)

-----------------------------------------------------------------------------
(* The earlier detection modules (src/unnamed/part_002 from line 514, and  *)
(* src/unnamed/part_003): helpers                                          *)

RECURSIVE SumSeq(_)
SumSeq(values) == IF values = <<>> THEN 0 ELSE Head(values) + SumSeq(Tail(values))

\* values.reduce((sum, v) => sum + v, 0) / values.length: 0 / 0 is NaN
mean(values) == IF Len(values) = 0 THEN NaN ELSE SumSeq(values) \div Len(values)

\* calculateVariance on ML scores given in hundredths: the result is in 1/10000
calculateVariance(values) ==
    IF Len(values) = 0 THEN NaN
    ELSE LET m == SumSeq(values) \div Len(values)
         IN  SumSeq([i \in 1..Len(values) |-> (values[i] - m) * (values[i] - m)])
                \div Len(values)

\* the number of terms that occur in text
countIncluded(text, terms) ==
    filterLength({i \in 1..Len(terms) : includes(text, terms[i])})

\* username.replace('@', ''): the first "@" is removed
RECURSIVE removeFirstAt(_)
removeFirstAt(s) ==
    IF Len(s) = 0 THEN s
    ELSE IF charAt(s, 1) = "@" THEN SubSeq(s, 2, Len(s))
    ELSE charAt(s, 1) \o removeFirstAt(SubSeq(s, 2, Len(s)))

countChars(s, chars) == Cardinality({i \in 1..Len(s) : charAt(s, i) \in chars})

\* /\d{3,}/.test(s)
hasThreeDigits(s) ==
    \E i \in 1..(Len(s) - 2) : \A j \in i..(i + 2) : charAt(s, j) \in Digits

\* analyzeUsernamePatterns of part_002, in points
analyzeUsernamePatterns(name) ==
    LET lower == toLowerCase(name)
        matches ==
              (IF endsWith(lower, "bot") THEN 1 ELSE 0)
            + (IF startsWith(lower, "bot") THEN 1 ELSE 0)
            + (IF endsWith(lower, "_bot") THEN 1 ELSE 0)
            + (IF includes(lower, "bot_") THEN 1 ELSE 0)
            + (IF hasThreeDigits(name) THEN 1 ELSE 0)
            + (IF lettersThenDigits(name, 1, TRUE) THEN 1 ELSE 0)
            + countIncluded(lower, <<"support", "admin", "official", "news", "crypto",
                                     "trading", "investment", "channel", "group", "team">>)
        botScore == matches * 15
                    + (IF Len(name) > 20 THEN 10 ELSE 0)
                    + (IF Len(name) < 4 THEN 20 ELSE 0)
                    + (IF countChars(name, {"_"}) > 2 THEN 10 ELSE 0)
                    + (IF 10 * countChars(name, Digits) > 3 * Len(name) THEN 15 ELSE 0)
    IN  Min(100, botScore)

Vowels == {"a", "e", "i", "o", "u", "A", "E", "I", "O", "U"}

Letters == LowerLetters \cup UpperLetters

\* analyzeUsernameStructure of part_002, in points
analyzeUsernameStructure_part002(name) ==
    LET repetitive == \E i \in 1..(Len(name) - 2) :
                          /\ charAt(name, i) = charAt(name, i + 1)
                          /\ charAt(name, i) = charAt(name, i + 2)
        isUpperCase == \A i \in 1..Len(name) : charAt(name, i) \notin LowerLetters
        vowels == countChars(name, Vowels)
        \* vowelRatio < 0.2 || vowelRatio > 0.8; 0 / 0 is NaN and compares false
        oddVowels == Len(name) > 0
                     /\ (10 * vowels < 2 * Len(name) \/ 10 * vowels > 8 * Len(name))
        simpleName == Len(name) >= 2 /\ \A i \in 1..Len(name) : charAt(name, i) \in Letters
        firstLast == \E k \in 2..(Len(name) - 1) :
                         /\ charAt(name, k) = "_"
                         /\ \A i \in (1..Len(name)) \ {k} : charAt(name, i) \in Letters
        structureScoreP == (IF repetitive THEN 20 ELSE 0)
                           + (IF isUpperCase /\ Len(name) > 5 THEN 15 ELSE 0)
                           + (IF oddVowels THEN 10 ELSE 0)
                           - (IF simpleName THEN 10 ELSE 0)
                           - (IF firstLast THEN 10 ELSE 0)
    IN  Max(0, Min(100, structureScoreP + 30))

\* analyzeTelegramBot of part_002: answered is whether textClassifier answered
telegramResult_part002(name, answered, answer) ==
    LET cleanUsername == toLowerCase(removeFirstAt(name))
        pattern == analyzeUsernamePatterns(cleanUsername)
        aiConfidence == IF answered THEN answer.scores[1] ELSE 50
        linguistic == IF ~answered THEN 50
                      ELSE IF answer.label = "LABEL_1"
                           THEN Max(0, 100 - answer.scores[1])
                           ELSE answer.scores[1]
        structure == analyzeUsernameStructure_part002(cleanUsername)
        \* Math.round(0.4 p + 0.3 l + 0.2 s + 0.1 a)
        confidence == Pts((4 * pattern + 3 * linguistic + 2 * structure
                           + aiConfidence + 5) \div 10)
    IN  [path |-> IF answered THEN "normal" ELSE "fallback",
         confidence |-> confidence, flag |-> Gt(confidence, Pts(65)),
         sentiment |-> "none", riskLevel |-> "none"]

\* performAdvancedAnalysis of part_002 (rA, rM: the draws of artifactDetection
\* and metadataAnalysis)
performAdvancedAnalysis(answer, file, rA, rM) ==
    LET aiModelConfidence == Pts(answer.scores[1])
        scoreVariance == calculateVariance(answer.scores)
        suspicionScore ==
              (IF aiModelConfidence < Pts(70) THEN 25 ELSE 0)
            + (IF scoreVariance > 1000 THEN 20 ELSE 0)
            + (IF file.large THEN 10 ELSE 0)
            + (IF ~file.imageType THEN 15 ELSE 0)
            + 30 * countIncluded(toLowerCase(file.name),
                                 <<"fake", "generated", "ai", "deepfake", "synthetic",
                                   "artificial">>)
        artifactDetection ==
            Max(0, Min(Pts(100), Pts(suspicionScore) + (RandomTimes(rA, 15) - Pts(7))))
        metadataAnalysis ==
            Max(Pts(70), Min(Pts(100), Pts(80) + (RandomTimes(rM, 25) - Pts(12))))
        finalConfidence ==
            Max(0, Min(Pts(100),
                (4 * Pts(suspicionScore) + 3 * (Pts(100) - aiModelConfidence)
                 + 2 * artifactDetection + (Pts(100) - metadataAnalysis)) \div 10))
    IN  Normal(finalConfidence, Gt(finalConfidence, Pts(60)))

\* analyzeClassificationResults of part_003
analyzeClassificationResults(answer, fileName, r) ==
    LET topConfidence == answer.scores[1]
        confidenceSpread == answer.scores[1] - answer.scores[Len(answer.scores)]
        lowerName == toLowerCase(fileName)
        suspicionScore ==
              (IF topConfidence < 70 THEN 30 ELSE 0)
            + (IF confidenceSpread < 30 THEN 20 ELSE 0)
            + (IF \E t \in {"fake", "generated", "ai", "deepfake"} : includes(lowerName, t)
               THEN 40 ELSE 0)
        confidence ==
            Min(Pts(100), Max(0, Pts(suspicionScore) + (RandomTimes(r, 20) - Pts(10))))
    IN  Normal(confidence, Gt(confidence, Pts(60)))

\* the frames a video analysis extracts
NumFrames_part002 == 5
NumFrames_part003 == 3

\* the per-frame analyses that succeeded: k frames, the first analysed as a and
\* the others as b
frameAnalyses(k, a, b) == [i \in 1..k |-> IF i = 1 THEN a ELSE b]

\* the aggregation both analyzeVideo functions perform on the confidences
videoAggregate(analyses) ==
    LET avgConfidence == mean([i \in 1..Len(analyses) |-> analyses[i].confidence])
    IN  Normal(avgConfidence, Gt(avgConfidence, Pts(60)))

\* Math.sqrt(n) rounded down, by bisection between lo and hi
RECURSIVE sqrtBetween(_, _, _)
sqrtBetween(n, lo, hi) ==
    IF lo >= hi THEN lo
    ELSE LET mid == (lo + hi + 1) \div 2
         IN  IF mid * mid <= n THEN sqrtBetween(n, mid, hi) ELSE sqrtBetween(n, lo, mid - 1)

sqrt(n) == sqrtBetween(n, 0, Min(n, 46340))

\* confidences in whole points as numbers in hundredths of a point
Hundredths(values) == [i \in 1..Len(values) |-> 100 * values[i]]

\* the temporalConsistency of part_002's analyzeTemporalConsistency, in fixed point:
\* Math.max(0, Math.min(100, 90 - (Math.sqrt(confidenceVariance) * 15)))
temporalConsistency_part002(values) ==
    LET confidenceVariance == calculateVariance(Hundredths(values))
    IN  Max(0, Min(Pts(100), Pts(90) - (sqrt(confidenceVariance) * 15 * Scale) \div 100))

\* the temporalConsistency of part_003's analyzeVideo, in fixed point:
\* Math.max(0, 100 - Math.sqrt(confidenceVariance) * 10)
temporalConsistency_part003(values) ==
    LET avgConfidence == SumSeq(Hundredths(values)) \div Len(values)
        confidenceVariance ==
            SumSeq([i \in 1..Len(values) |->
                        (100 * values[i] - avgConfidence) * (100 * values[i] - avgConfidence)])
                \div Len(values)
    IN  Max(0, Pts(100) - (sqrt(confidenceVariance) * 10 * Scale) \div 100)

\* analyzeSocialMedia of part_002
socialMediaResult_part002(url, answer, r) ==
    LET aiConfidence == Pts(answer.scores[1])
        urlLower == toLowerCase(url)
        suspicionScore ==
              RandomTimes(r, 20) + Pts(15)
            + Pts(25) * countIncluded(urlLower, <<"fake", "generated", "ai", "deepfake",
                                                  "bot", "synthetic">>)
            + (IF includes(urlLower, "tiktok") \/ includes(urlLower, "instagram")
               THEN Pts(10) ELSE 0)
        finalConfidence == Min(Pts(100), (suspicionScore + (Pts(100) - aiConfidence)) \div 2)
    IN  Normal(finalConfidence, Gt(finalConfidence, Pts(60)))

socialMediaFallback_part002(r) == Fallback(RandomTimes(r, 40) + Pts(30), FALSE)

\* analyzeSocialMedia of part_003
socialMediaResult_part003(url, r) ==
    LET urlLower == toLowerCase(url)
        suspicionScore ==
              RandomTimes(r, 30) + Pts(10)
            + (IF \E t \in {"fake", "generated", "ai", "deepfake"} : includes(urlLower, t)
               THEN Pts(50) ELSE 0)
    IN  Normal(Min(Pts(100), suspicionScore), Gt(suspicionScore, Pts(60)))

EarlierOps == {"analyzeImage_part002", "analyzeVideo_part002", "analyzeTelegramBot_part002",
               "analyzeSocialMedia_part002", "analyzeImage_part003", "analyzeVideo_part003",
               "analyzeSocialMedia_part003"}

-----------------------------------------------------------------------------
(* Initial states *)

EngineIdle ==
    /\ pc = "idle" /\ op = "none" /\ arg = "none"
    /\ ml = "none" /\ mlOut = NoAnswer
    /\ outcome = "none" /\ result = NoResult
    /\ prevFail = NoFail

NoNetwork ==
    [resolved |-> FALSE, coordinatedBehavior |-> 0, clusterAnalysis |-> <<>>,
     suspiciousConnections |-> <<>>, networkCentrality |-> 0]

NoImage == [width |-> 0, height |-> 0, fill |-> "none"]
NoScore == 0 - 1

VisionIdle == imageData = NoImage /\ compressionScore = NoScore

NoTemporal == [by |-> "none", thrown |-> FALSE, temporalConsistency |-> 0]

TemporalIdle == confidences = <<>> /\ temporal = NoTemporal

NoReasons == <<"none">>

BehaviorIdle ==
    /\ username = "" /\ platform = "none" /\ analyzed = FALSE
    /\ structureScore = 0 /\ linguisticScore = 0 /\ patternScore = 0
    /\ suspiciousActivities = <<>> /\ reasons = NoReasons

NoDetails == [op |-> "none", path |-> "none", scores |-> <<>>]

\* the model keys of the load methods modelled, and the callers of a load method
Keys == {"deepfake-detection", "sentiment-analysis"}
MaxCallers == 3
Callers == 1..MaxCallers

NoCall == [pc |-> "idle", key |-> "none", awaits |-> 0, path |-> "none",
           outcome |-> "none", model |-> 0]
NoInitCall == [pc |-> "idle", outcome |-> "none", model |-> "null"]

ManagerIdle ==
    /\ instances = 0
    /\ modelCache = [k \in Keys |-> 0] /\ loadingPromises = [k \in Keys |-> 0]
    /\ pipelines = <<>>
    /\ callers = [c \in Callers |-> NoCall]

InitializeIdle ==
    /\ imageClassifier = "null" /\ isModelLoading = FALSE
    /\ initCallers = [c \in Callers |-> NoInitCall]

LoadersIdle == ManagerIdle /\ InitializeIdle

NoPair == <<"none", "none">>
NoSimilarity == [num |-> 0 - 1, den |-> 1]
HelpersIdle == pair = NoPair /\ similarity = NoSimilarity /\ variance = NoScore

ScoreIdle ==
    /\ BehaviorIdle /\ details = NoDetails /\ HelpersIdle /\ LoadersIdle
    /\ usernames = <<>> /\ network = NoNetwork
    /\ VisionIdle /\ TemporalIdle

NoRequest == [type |-> "none", data |-> "none"]
NoEntry == [id |-> 0, type |-> "none"]
NoTimer == [kind |-> "none", result |-> NoEntry]

\* <Tabs defaultValue="monitor">: no username form is mounted
NoForm == [type |-> "monitor", username |-> "", error |-> ""]

PageIdle ==
    /\ isAnalyzing = FALSE /\ analysisProgress = 0 /\ analysisStatus = ""
    /\ results = <<>> /\ progressInterval = "none" /\ resetTimer = NoTimer
    /\ pending = NoRequest /\ form = NoForm

Init == EngineIdle /\ ScoreIdle /\ PageIdle

-----------------------------------------------------------------------------
(* A call of a public operation, and the external ML adapter *)

\* the caller calls operation o with argument a
Invoke(o, a) ==
    /\ pc = "idle"
    /\ pc' = "called" /\ op' = o /\ arg' = a
    /\ ml' = "none" /\ mlOut' = NoAnswer
    /\ outcome' = "none" /\ result' = NoResult
    /\ UNCHANGED <<prevFail, scoreVars, pageVars>>

\* the operation reaches its first await of the model manager / pipeline
RequestML ==
    /\ pc = "called" /\ UsesML(op)
    /\ pc' = "awaitML" /\ ml' = "pending"
    /\ UNCHANGED <<op, arg, mlOut, outcome, result, prevFail, scoreVars, pageVars>>

\* the adapter loads and answers every inference call
MLResolve ==
    /\ pc = "awaitML" /\ ml = "pending"
    /\ \E answer \in MLAnswers : mlOut' = answer
    /\ ml' = "resolved"
    /\ UNCHANGED <<pc, op, arg, outcome, result, prevFail, scoreVars, pageVars>>

\* pipeline() rejects on webgpu and on the cpu: no model
MLLoadFail ==
    /\ pc = "awaitML" /\ ml = "pending"
    /\ ml' = "loadFailed"
    /\ UNCHANGED <<pc, op, arg, mlOut, outcome, result, prevFail, scoreVars, pageVars>>

\* the model loaded, and its inference calls reject
MLInferFail ==
    /\ pc = "awaitML" /\ ml = "pending"
    /\ ml' = "inferFailed"
    /\ UNCHANGED <<pc, op, arg, mlOut, outcome, result, prevFail, scoreVars, pageVars>>

Awaited(o) == pc = "awaitML" /\ op = o /\ ml # "pending"

\* the promise of the call resolves with r
Resolves(r) ==
    /\ result' = r /\ outcome' = "resolved" /\ pc' = "done"
    /\ UNCHANGED <<op, arg, ml, mlOut, prevFail, scoreVars, pageVars>>

\* the promise of the call rejects
Rejects ==
    /\ result' = NoResult /\ outcome' = "rejected" /\ pc' = "done"
    /\ UNCHANGED <<op, arg, ml, mlOut, prevFail, scoreVars, pageVars>>

\* the caller has the settled promise
Returned ==
    /\ pc = "done"
    /\ pc' = "idle" /\ op' = "none" /\ arg' = "none"
    /\ ml' = "none" /\ mlOut' = NoAnswer
    /\ outcome' = "none" /\ result' = NoResult
    /\ UNCHANGED <<scoreVars, pageVars>>

Return == Returned /\ UNCHANGED prevFail

\* the same, and the result of a catch path of deepfakeDetection.ts is
\* remembered, to compare the next run on the same input with it
ReturnRemembered ==
    /\ Returned
    /\ prevFail' = IF op \in CurrentOps /\ outcome = "resolved" /\ result.path = "fallback"
                   THEN [op |-> op, arg |-> arg, confidence |-> result.confidence,
                         flag |-> result.flag]
                   ELSE prevFail

-----------------------------------------------------------------------------
(* src/src/utils/deepfakeDetection.ts: the operations *)

analyzeImage ==
    /\ Awaited("analyzeImage")
    /\ \/ /\ ml = "resolved" /\ FileOf(arg).decodes
          /\ \E c \in RawSignals, rs \in RawSignals, e \in RawSignals, col \in RawSignals,
                r \in RandomDraws :
                Resolves(imageResult(manipulationScore(c, rs, e, col), r))
       \/ /\ ml # "resolved" \/ ~FileOf(arg).decodes
          /\ \E r1 \in RandomDraws, r2 \in RandomDraws :
                Resolves(fallbackImageAnalysis(r1, r2))

\* analyzeVideoForManipulation resolves from a timer and nothing in the try
\* block can throw: the catch (fallbackVideoAnalysis) is not reachable
analyzeVideo ==
    /\ pc = "called" /\ op = "analyzeVideo"
    /\ \E rc \in RandomDraws, rt \in RandomDraws, ra \in RandomDraws,
          ratio \in SuspiciousRatios, r \in RandomDraws :
          Resolves(videoResult(videoManipulationScore(rc, rt, ra, ratio), r))

analyzeTelegramBot ==
    /\ Awaited("analyzeTelegramBot")
    /\ \/ /\ ml = "resolved"
          /\ \E r \in RandomDraws :
                Resolves(telegramResult(linguisticSimilarityOf[arg].telegram,
                                        r, mlOut.scores[1]))
       \/ /\ ml # "resolved"
          /\ \E r1 \in RandomDraws, r2 \in RandomDraws :
                Resolves(fallbackTelegramAnalysis(arg, r1, r2))

\* a variant whose catch block rethrows instead of returning the fallback
analyzeTwitterBot_rethrows ==
    /\ Awaited("analyzeTwitterBot")
    /\ \/ /\ ml = "resolved"
          /\ \E re \in RandomDraws, r \in RandomDraws :
                Resolves(twitterResult(linguisticSimilarityOf[arg].twitter,
                                       simulateEngagementVelocity(re), r))
       \/ /\ ml # "resolved"
          /\ Rejects

analyzeTwitterBot ==
    /\ Awaited("analyzeTwitterBot")
    /\ \/ /\ ml = "resolved"
          /\ \E re \in RandomDraws, r \in RandomDraws :
                Resolves(twitterResult(linguisticSimilarityOf[arg].twitter,
                                       simulateEngagementVelocity(re), r))
       \/ /\ ml # "resolved"
          /\ \E r1 \in RandomDraws, r2 \in RandomDraws :
                Resolves(fallbackTwitterAnalysis(arg, r1, r2))

analyzeInstagramBot ==
    /\ Awaited("analyzeInstagramBot")
    /\ \/ /\ ml = "resolved"
          /\ \E re \in RandomDraws :
                Resolves(instagramResult(linguisticSimilarityOf[arg].instagram,
                                         simulateEngagementVelocity(re), mlOut.scores[1]))
       \/ /\ ml # "resolved"
          /\ \E r1 \in RandomDraws, r2 \in RandomDraws :
                Resolves(fallbackInstagramAnalysis(arg, r1, r2))

analyzeSocialMediaMonitoring ==
    /\ Awaited("analyzeSocialMediaMonitoring")
    /\ \/ /\ ml = "resolved"
          /\ Resolves(monitoringResult(mlOut))
       \/ /\ ml # "resolved"
          /\ \E r1 \in RandomDraws, r2 \in RandomDraws, r3 \in RandomDraws :
                Resolves(fallbackSocialMediaAnalysis(r1, r2, r3))

-----------------------------------------------------------------------------
(* The earlier detection modules: the operations *)

\* part_002: initializeModels throws when the cpu pipeline rejects too, and
\* analyzeImage rethrows what the classifier throws
analyzeImage_part002 ==
    /\ Awaited("analyzeImage_part002")
    /\ \/ /\ ml = "resolved"
          /\ \E rA \in RandomDraws, rM \in RandomDraws :
                Resolves(performAdvancedAnalysis(mlOut, FileOf(arg), rA, rM))
       \/ /\ ml # "resolved"
          /\ Rejects

\* part_002: a frame whose analysis throws is skipped; analyzeTemporalConsistency
\* throws on an empty list
analyzeVideo_part002 ==
    /\ Awaited("analyzeVideo_part002")
    /\ \/ /\ ml = "resolved"
          /\ \E k \in 1..NumFrames_part002, other \in MLAnswers,
                rA \in RandomDraws, rM \in RandomDraws :
                Resolves(videoAggregate(frameAnalyses(k,
                            performAdvancedAnalysis(mlOut, FileOf(arg), rA, rM),
                            performAdvancedAnalysis(other, FileOf(arg), rM, rA))))
       \/ /\ ml # "resolved"
          /\ Rejects

\* part_002: a failing textClassifier call leaves the defaults (50, 50)
analyzeTelegramBot_part002 ==
    /\ Awaited("analyzeTelegramBot_part002")
    /\ \/ /\ ml \in {"resolved", "inferFailed"}
          /\ Resolves(telegramResult_part002(arg, ml = "resolved", mlOut))
       \/ /\ ml = "loadFailed"
          /\ Rejects

analyzeSocialMedia_part002 ==
    /\ Awaited("analyzeSocialMedia_part002")
    /\ \/ /\ ml = "resolved"
          /\ \E r \in RandomDraws : Resolves(socialMediaResult_part002(arg, mlOut, r))
       \/ /\ ml = "inferFailed"
          /\ \E r \in RandomDraws : Resolves(socialMediaFallback_part002(r))
       \/ /\ ml = "loadFailed"
          /\ Rejects

analyzeImage_part003 ==
    /\ Awaited("analyzeImage_part003")
    /\ \/ /\ ml = "resolved"
          /\ \E r \in RandomDraws :
                Resolves(analyzeClassificationResults(mlOut, FileOf(arg).name, r))
       \/ /\ ml # "resolved"
          /\ Rejects

\* part_003: a frame whose analysis throws is skipped, and the averages are
\* taken over the frames that are left, also when none is
analyzeVideo_part003 ==
    /\ Awaited("analyzeVideo_part003")
    /\ \/ /\ ml = "resolved"
          /\ \E k \in 1..NumFrames_part003, other \in MLAnswers,
                r1 \in RandomDraws, r2 \in RandomDraws :
                Resolves(videoAggregate(frameAnalyses(k,
                            analyzeClassificationResults(mlOut, FileOf(arg).name, r1),
                            analyzeClassificationResults(other, FileOf(arg).name, r2))))
       \/ /\ ml = "inferFailed"
          /\ Resolves(videoAggregate(<<>>))
       \/ /\ ml = "loadFailed"
          /\ Rejects

analyzeSocialMedia_part003 ==
    /\ pc = "called" /\ op = "analyzeSocialMedia_part003"
    /\ \E r \in RandomDraws : Resolves(socialMediaResult_part003(arg, r))

-----------------------------------------------------------------------------
(* The engine: calls of the public operations, one at a time *)

Next ==
    \/ \E o \in CurrentOps \cup EarlierOps : \E a \in ArgsOf(o) : Invoke(o, a)
    \/ RequestML
    \/ MLResolve
    \/ MLLoadFail
    \/ MLInferFail
    \/ analyzeImage
    \/ analyzeVideo
    \/ analyzeTelegramBot
    \/ analyzeTwitterBot
    \/ analyzeInstagramBot
    \/ analyzeSocialMediaMonitoring
    \/ analyzeImage_part002
    \/ analyzeVideo_part002
    \/ analyzeTelegramBot_part002
    \/ analyzeSocialMedia_part002
    \/ analyzeImage_part003
    \/ analyzeVideo_part003
    \/ analyzeSocialMedia_part003
    \/ Return

Spec == Init /\ [][Next]_vars

-----------------------------------------------------------------------------
(* BehavioralAnalyzer on its own: analyzeBehavioralPatterns applied to a   *)
(* username and a platform                                                 *)

\* usernames are built from at most MaxTokens of these pieces
Tokens == {"user", "bot", "shop", "news", "real", "_", ".", "7", "123", "A"}

MaxTokens == 3

RECURSIVE Concatenations(_)
Concatenations(n) ==
    IF n = 0 THEN {""}
    ELSE LET shorter == Concatenations(n - 1)
         IN  shorter \cup {p \o t : p \in shorter, t \in Tokens}

ExampleUsernames ==
    {"crypto_trading_bot", "john_doe", "news_bot_24", "user12345678901234567"}

Usernames == (Concatenations(MaxTokens) \ {""}) \cup ExampleUsernames

ScoreInit ==
    /\ EngineIdle /\ PageIdle /\ details = NoDetails /\ HelpersIdle /\ LoadersIdle
    /\ username \in Usernames /\ platform \in Platforms
    /\ analyzed = FALSE /\ structureScore = 0 /\ linguisticScore = 0 /\ patternScore = 0
    /\ suspiciousActivities = <<>> /\ reasons = NoReasons
    /\ usernames = <<>> /\ network = NoNetwork
    /\ VisionIdle /\ TemporalIdle

\* the timer callback of analyzeBehavioralPatterns: the sub-scores of the username and
\* the suspicious activities found from them
analyzeBehavioralPatterns ==
    /\ ~analyzed
    /\ \E structure \in {analyzeUsernameStructure(username, platform)},
          linguistic \in {analyzeLinguisticPatterns(username, botPatterns[platform])},
          pattern \in {analyzePatternMatching(username)},
          r \in RandomDraws :
          /\ structureScore' = structure
          /\ linguisticScore' = linguistic
          /\ patternScore' = pattern
          /\ suspiciousActivities' =
                identifySuspiciousActivities(structure, linguistic, pattern, platform, r)
    /\ analyzed' = TRUE
    /\ UNCHANGED <<username, platform, reasons, usernames, network, visionVars, temporalVars,
                   details, helperVars, loaderVars, engineVars, pageVars>>

\* the bot analyzer of the platform builds the reasons of its result from the resolved
\* pattern (the models having answered)
buildReasons ==
    /\ analyzed /\ reasons = NoReasons
    /\ \E r \in RandomDraws, e \in RandomDraws, score \in MLScores :
          reasons' = reasonsOf(platform,
                               botResult(platform, linguisticScore,
                                         simulateEngagementVelocity(e), r, score).flag,
                               suspiciousActivities)
    /\ UNCHANGED <<username, platform, analyzed, structureScore, linguisticScore, patternScore,
                   suspiciousActivities, usernames, network, visionVars, temporalVars,
                   details, helperVars, loaderVars, engineVars, pageVars>>

ScoreNext ==
    \/ analyzeBehavioralPatterns
    \/ buildReasons

SpecScore == ScoreInit /\ [][ScoreNext]_vars

-----------------------------------------------------------------------------
(* Properties of the sub-scores (checked under SpecScore) *)

CharsOf(name) == {charAt(name, i) : i \in 1..Len(name)}

\* the number of digits the name ends with
TrailingDigits(name) ==
    Cardinality({d \in 1..Len(name) :
                    \A i \in (Len(name) - d + 1)..Len(name) : charAt(name, i) \in Digits})

\* name = before \o word \o after, for some before and after
OccursIn(word, name) ==
    \E i \in 0..(Len(name) - Len(word)) :
        name = SubSeq(name, 1, i) \o word \o SubSeq(name, i + Len(word) + 1, Len(name))

\* the additive rules of the structural analyzer, with the suffixes of the
\* instagram rule left open
StructureRules(name, plat, instagramSuffixes) ==
    LET digit == CharsOf(name) \cap Digits # {}
        lettersDigits3 ==
            LET d == TrailingDigits(name)
            IN  /\ d >= 3 /\ Len(name) > d
                /\ \A i \in 1..(Len(name) - d) : charAt(name, i) \in LowerLetters
        userNumber ==
            /\ Len(name) >= 5 /\ SubSeq(name, 1, 4) = "user"
            /\ TrailingDigits(name) = Len(name) - 4
    IN  Min(100,
            (IF Len(name) < 4 THEN 30 ELSE 0)
          + (IF Len(name) > 20 THEN 20 ELSE 0)
          + (IF digit THEN 15 ELSE 0)
          + (IF "_" \in CharsOf(name) THEN 10 ELSE 0)
          + (IF CharsOf(name) \cap UpperLetters = {} /\ digit THEN 15 ELSE 0)
          + (IF lettersDigits3 THEN 25 ELSE 0)
          + (IF plat = "telegram" /\ Len(name) >= 3
                /\ SubSeq(name, Len(name) - 2, Len(name)) = "bot" THEN 40 ELSE 0)
          + (IF plat = "twitter" /\ userNumber THEN 35 ELSE 0)
          + (IF plat = "instagram" /\ \E w \in instagramSuffixes : endsWith(name, w)
             THEN 30 ELSE 0))

C6_WitnessCap ==
    /\ analyzed /\ platform = "twitter"
    /\ username = "user12345678901234567" /\ structureScore = 100

ClaimedLinguistic(name, lexicon) ==
    LET lower == toLowerCase(name)
        B == Cardinality({i \in DOMAIN lexicon.botKeywords : OccursIn(lexicon.botKeywords[i], lower)})
        H == Cardinality({i \in DOMAIN lexicon.humanKeywords :
                             OccursIn(lexicon.humanKeywords[i], lower)})
        P == Cardinality({i \in DOMAIN lexicon.suspiciousPatterns :
                             test(lexicon.suspiciousPatterns[i], name)})
        total == 20 * B - 15 * H + 25 * P
    IN  IF total < 0 THEN 0 ELSE IF total > 100 THEN 100 ELSE total

\* C7: the linguistic score of every username is max(0, min(100, 20 B - 15 H + 25 P)),
\* the three terms summed before the floor and the cap; crypto_trading_bot on
\* twitter scores at least 60 and john_doe scores 0.
C7_Linguistic ==
    analyzed =>
        /\ linguisticScore = ClaimedLinguistic(username, botPatterns[platform])
        /\ (username = "crypto_trading_bot" /\ platform = "twitter") => linguisticScore >= 60
        /\ username = "john_doe" => linguisticScore = 0

\* C7 witness: a scored username whose keyword terms sum below zero and which
\* matches a suspicious pattern (the order of sum and floor matters)
C7_Witness ==
    /\ analyzed /\ platform = "telegram" /\ username = "realuser123"
    /\ botKeywordMatches(username, botPatterns.telegram) * 20
         - humanKeywordMatches(username, botPatterns.telegram) * 15 < 0
    /\ suspiciousMatches(username, botPatterns.telegram) > 0
    /\ linguisticScore = 0

\* C8 as claimed: the structural score of crypto_trading_bot on twitter is at
\* least 60.
C8_StructureAtLeast60 ==
    (analyzed /\ username = "crypto_trading_bot" /\ platform = "twitter")
        => structureScore >= 60

\* C8 amended: the structural score of crypto_trading_bot on twitter is 10
\* (only the underscore rule applies).
C8_StructureIs10 ==
    (analyzed /\ username = "crypto_trading_bot" /\ platform = "twitter")
        => structureScore = 10

\* C8 witness: crypto_trading_bot was scored on twitter
C8_Witness ==
    analyzed /\ username = "crypto_trading_bot" /\ platform = "twitter" /\ structureScore = 10

-----------------------------------------------------------------------------
(* BehavioralAnalyzer.performNetworkAnalysis on a list of usernames *)

Min3(a, b, c) == Min(a, Min(b, c))

\* one row of the matrix of levenshteinDistance: row holds matrix[i][0..j-1],
\* prev holds matrix[i-1], c is str2.charAt(i - 1)
RECURSIVE fillRow(_, _, _, _)
fillRow(str1, c, prev, row) ==
    IF Len(row) = Len(str1) + 1 THEN row
    ELSE LET j == Len(row)
             cell == IF c = charAt(str1, j)
                     THEN prev[j]
                     ELSE Min3(prev[j] + 1, row[j] + 1, prev[j + 1] + 1)
         IN  fillRow(str1, c, prev, Append(row, cell))

\* the rows i..str2.length of the matrix, given row i - 1; the last row
RECURSIVE fillMatrix(_, _, _, _)
fillMatrix(str1, str2, i, prev) ==
    IF i > Len(str2) THEN prev
    ELSE fillMatrix(str1, str2, i + 1, fillRow(str1, charAt(str2, i), prev, <<i>>))

levenshteinDistance(str1, str2) ==
    fillMatrix(str1, str2, 1, [j \in 1..(Len(str1) + 1) |-> j - 1])[Len(str1) + 1]

\* a variant that measures the distance against the length of username1 only
calculateUsernameSimilarity_firstLength(username1, username2) ==
    [num |-> Len(username1) - levenshteinDistance(username1, username2),
     den |-> Len(username1)]

\* 1 - distance / maxLength, kept as the fraction (maxLength - distance) / maxLength;
\* den = 0 stands for 1 - 0 / 0, which is NaN
calculateUsernameSimilarity(username1, username2) ==
    LET distance == levenshteinDistance(username1, username2)
        maxLength == Max(Len(username1), Len(username2))
    IN  [num |-> maxLength - distance, den |-> maxLength]

\* similarity > 0.7 (false for NaN)
GtSevenTenths(ratio) ==
    ratio.den # 0 /\ 10 * ratio.num > 7 * ratio.den

\* a variant whose inner loop starts at j = i
detectCoordinatedBehavior_selfPairs(names) ==
    Min(10 * Cardinality({ij \in (1..Len(names)) \X (1..Len(names)) :
                             /\ ij[1] <= ij[2]
                             /\ GtSevenTenths(calculateUsernameSimilarity(names[ij[1]],
                                                                          names[ij[2]]))}),
        100)

detectCoordinatedBehavior(names) ==
    Min(10 * Cardinality({ij \in (1..Len(names)) \X (1..Len(names)) :
                             /\ ij[1] < ij[2]
                             /\ GtSevenTenths(calculateUsernameSimilarity(names[ij[1]],
                                                                          names[ij[2]]))}),
        100)

\* usernames.slice(from, to), from and to counted from 0
slice(names, from, to) == SubSeq(names, from + 1, Min(to, Len(names)))

numClustersOf(names) == Min(Len(names) \div 3, 5)

\* levels[i] is the draw of cluster i's suspicionLevel
performClusterAnalysis(names, levels) ==
    [i \in 1..numClustersOf(names) |->
        [id |-> i - 1,
         members |-> slice(names, (i - 1) * 3, i * 3),
         suspicionLevel |-> RandomTimes(levels[i], 100)]]

connectionSentence(a, b) == a \o " shows coordinated behavior with " \o b

\* draws[i] is the Math.random() of iteration i - 1
identifySuspiciousConnections(names, draws) ==
    LET iterations == [i \in 1..Min(Len(names), 5) |-> i]
        kept == SelectSeq(iterations, LAMBDA i : draws[i] > 60)
    IN  [k \in 1..Len(kept) |->
            connectionSentence(names[kept[k]], names[(kept[k] % Len(names)) + 1])]

\* the lists handed to performNetworkAnalysis: every list of at most MaxList
\* short usernames, and some longer examples
NetworkUsernames == {"bot", "bots", "joe", "jo"}

MaxList == 3

RECURSIVE ListsUpTo(_)
ListsUpTo(n) ==
    IF n = 0 THEN {<<>>}
    ELSE LET shorter == ListsUpTo(n - 1)
         IN  shorter \cup {Append(l, u) : l \in shorter, u \in NetworkUsernames}

ExampleLists ==
    { <<"news_bot_24", "news_bot_25">>,
      <<"user_00123", "user_00456">>,
      <<"bot", "bots", "joe", "jo">>,
      <<"bot", "bot", "bot", "bot", "bot", "bot">> }

UsernameLists == ListsUpTo(MaxList) \cup ExampleLists

NetworkInit ==
    /\ EngineIdle /\ PageIdle /\ details = NoDetails /\ HelpersIdle /\ LoadersIdle
    /\ BehaviorIdle
    /\ usernames \in UsernameLists /\ network = NoNetwork
    /\ VisionIdle /\ TemporalIdle

\* the timer callback of performNetworkAnalysis
performNetworkAnalysis ==
    /\ ~network.resolved
    /\ \E coordinatedBehavior \in {detectCoordinatedBehavior(usernames)},
          levels \in [1..numClustersOf(usernames) -> RandomDraws],
          draws \in [1..Min(Len(usernames), 5) -> RandomDraws],
          r \in RandomDraws :
          network' = [resolved |-> TRUE,
                      coordinatedBehavior |-> coordinatedBehavior,
                      clusterAnalysis |-> performClusterAnalysis(usernames, levels),
                      suspiciousConnections |-> identifySuspiciousConnections(usernames, draws),
                      networkCentrality |-> RandomTimes(r, 100)]
    /\ UNCHANGED <<behaviorVars, usernames,
                   visionVars, temporalVars, details, helperVars, loaderVars, engineVars, pageVars>>

NetworkNext == performNetworkAnalysis

SpecNetwork == NetworkInit /\ [][NetworkNext]_vars

-----------------------------------------------------------------------------
(* ComputerVisionAnalyzer.detectCompressionArtifacts on a pixel buffer *)

MaxSide == 17
Fills == {"zero", "faint", "checker"}
Images == [width : 7..MaxSide, height : 7..MaxSide, fill : Fills]

VisionInit ==
    /\ EngineIdle /\ PageIdle /\ details = NoDetails /\ HelpersIdle /\ LoadersIdle
    /\ BehaviorIdle
    /\ usernames = <<>> /\ network = NoNetwork
    /\ imageData \in Images /\ compressionScore = NoScore
    /\ TemporalIdle

\* const compressionScore = this.detectCompressionArtifacts(imageData)
computeCompressionScore ==
    /\ compressionScore = NoScore
    /\ compressionScore' = detectCompressionArtifacts(imageData)
    /\ UNCHANGED <<behaviorVars, usernames,
                   network, imageData, temporalVars, details, helperVars, loaderVars, engineVars, pageVars>>

VisionNext == computeCompressionScore

SpecVision == VisionInit /\ [][VisionNext]_vars

-----------------------------------------------------------------------------
(* The temporal aggregation of the earlier detection modules on a list of  *)
(* per-frame confidences                                                   *)

MaxFrames == 3
FrameConfidences == {0, 40, 44, 100}

RECURSIVE ConfidencesUpTo(_)
ConfidencesUpTo(n) ==
    IF n = 0 THEN {<<>>}
    ELSE LET shorter == ConfidencesUpTo(n - 1)
         IN  shorter \cup {Append(q, c) : q \in shorter, c \in FrameConfidences}

TemporalInit ==
    /\ EngineIdle /\ PageIdle /\ details = NoDetails /\ HelpersIdle /\ LoadersIdle
    /\ BehaviorIdle
    /\ usernames = <<>> /\ network = NoNetwork
    /\ VisionIdle
    /\ confidences \in ConfidencesUpTo(MaxFrames) /\ temporal = NoTemporal

\* part_002: throws on an empty list
analyzeTemporalConsistency ==
    /\ temporal = NoTemporal
    /\ temporal' =
            IF Len(confidences) = 0
            THEN [by |-> "part_002", thrown |-> TRUE, temporalConsistency |-> 0]
            ELSE [by |-> "part_002", thrown |-> FALSE,
                  temporalConsistency |-> temporalConsistency_part002(confidences)]
    /\ UNCHANGED <<behaviorVars, usernames,
                   network, visionVars, confidences, details, helperVars, loaderVars, engineVars, pageVars>>

\* part_003: the aggregation at the end of analyzeVideo; 0 / 0 is NaN
aggregateFrames_part003 ==
    /\ temporal = NoTemporal
    /\ temporal' =
            IF Len(confidences) = 0
            THEN [by |-> "part_003", thrown |-> FALSE, temporalConsistency |-> NaN]
            ELSE [by |-> "part_003", thrown |-> FALSE,
                  temporalConsistency |-> temporalConsistency_part003(confidences)]
    /\ UNCHANGED <<behaviorVars, usernames,
                   network, visionVars, confidences, details, helperVars, loaderVars, engineVars, pageVars>>

TemporalNext ==
    \/ analyzeTemporalConsistency
    \/ aggregateFrames_part003

SpecTemporal == TemporalInit /\ [][TemporalNext]_vars

-----------------------------------------------------------------------------
(* The dividing helpers of the engine on their smallest inputs: two strings *)
(* that may be empty, a pixel buffer whose width or height may be 0, a list *)
(* that may be empty                                                        *)

ShortStrings == {"", "a", "ab"}
Sides == {0, 8, 16}
SmallImages == [width : Sides, height : Sides, fill : {"zero", "checker"}]
ShortLists == {<<>>, <<40>>, <<40, 44>>}

HelpersInit ==
    /\ EngineIdle /\ PageIdle /\ details = NoDetails /\ LoadersIdle
    /\ BehaviorIdle
    /\ usernames = <<>> /\ network = NoNetwork
    /\ imageData \in SmallImages /\ compressionScore = NoScore
    /\ confidences \in ShortLists /\ temporal = NoTemporal
    /\ pair \in ShortStrings \X ShortStrings
    /\ similarity = NoSimilarity /\ variance = NoScore

\* const similarity = this.calculateUsernameSimilarity(usernames[i], usernames[j])
compareUsernames ==
    /\ similarity = NoSimilarity
    /\ similarity' = calculateUsernameSimilarity(pair[1], pair[2])
    /\ UNCHANGED <<behaviorVars, usernames, network, visionVars, temporalVars, details,
                   pair, variance, loaderVars, engineVars, pageVars>>

\* const confidenceVariance = calculateVariance(confidences)
computeVariance ==
    /\ variance = NoScore
    /\ variance' = calculateVariance(Hundredths(confidences))
    /\ UNCHANGED <<behaviorVars, usernames, network, visionVars, temporalVars, details,
                   pair, similarity, loaderVars, engineVars, pageVars>>

HelpersNext ==
    \/ compareUsernames
    \/ computeCompressionScore
    \/ computeVariance
    \/ aggregateFrames_part003

SpecHelpers == HelpersInit /\ [][HelpersNext]_vars

-----------------------------------------------------------------------------
(* AIModelManager: the load methods called by several callers whose calls  *)
(* overlap. The four load methods differ in their key and model only; each *)
(* caller calls one of them once.                                          *)

\* pipeline(task, model, { device })
pipeline(key, device) == Append(pipelines, [key |-> key, device |-> device, state |-> "pending"])

\* a variant that never looks at loadingPromises
load_ignoresLoadingPromises(c, key) ==
    /\ callers[c].pc = "idle"
    /\ instances' = IF instances = 0 THEN 1 ELSE instances
    /\ IF modelCache[key] # 0
       THEN /\ callers' = [callers EXCEPT ![c] =
                    [pc |-> "done", key |-> key, awaits |-> 0, path |-> "cache",
                     outcome |-> "resolved", model |-> modelCache[key]]]
            /\ UNCHANGED <<loadingPromises, pipelines>>
       ELSE /\ pipelines' = pipeline(key, "webgpu")
            /\ loadingPromises' = [loadingPromises EXCEPT ![key] = Len(pipelines) + 1]
            /\ callers' = [callers EXCEPT ![c] =
                    [pc |-> "awaitWebgpu", key |-> key, awaits |-> Len(pipelines) + 1,
                     path |-> "loader", outcome |-> "none", model |-> 0]]
    /\ UNCHANGED <<modelCache, initVars, behaviorVars, usernames, network, visionVars,
                   temporalVars, details, helperVars, engineVars, pageVars>>

\* AIModelManager.getInstance().load...Model(), up to its first await or return
load(c, key) ==
    /\ callers[c].pc = "idle"
    /\ instances' = IF instances = 0 THEN 1 ELSE instances
    /\ IF modelCache[key] # 0
       THEN /\ callers' = [callers EXCEPT ![c] =
                    [pc |-> "done", key |-> key, awaits |-> 0, path |-> "cache",
                     outcome |-> "resolved", model |-> modelCache[key]]]
            /\ UNCHANGED <<loadingPromises, pipelines>>
       ELSE IF loadingPromises[key] # 0
       THEN /\ callers' = [callers EXCEPT ![c] =
                    [pc |-> "awaitPromise", key |-> key, awaits |-> loadingPromises[key],
                     path |-> "promise", outcome |-> "none", model |-> 0]]
            /\ UNCHANGED <<loadingPromises, pipelines>>
       ELSE /\ pipelines' = pipeline(key, "webgpu")
            /\ loadingPromises' = [loadingPromises EXCEPT ![key] = Len(pipelines) + 1]
            /\ callers' = [callers EXCEPT ![c] =
                    [pc |-> "awaitWebgpu", key |-> key, awaits |-> Len(pipelines) + 1,
                     path |-> "loader", outcome |-> "none", model |-> 0]]
    /\ UNCHANGED <<modelCache, initVars, behaviorVars, usernames, network, visionVars,
                   temporalVars, details, helperVars, engineVars, pageVars>>

\* the library settles the promise of the p-th pipeline(...) call
pipelineSettles(p, state) ==
    /\ p <= Len(pipelines)
    /\ pipelines[p].state = "pending"
    /\ pipelines' = [pipelines EXCEPT ![p].state = state]
    /\ UNCHANGED <<instances, modelCache, loadingPromises, callers, initVars, behaviorVars,
                   usernames, network, visionVars, temporalVars, details, helperVars,
                   engineVars, pageVars>>

\* the caller that was returned the stored promise has it settled
promiseSettled(c) ==
    /\ callers[c].pc = "awaitPromise"
    /\ pipelines[callers[c].awaits].state # "pending"
    /\ callers' = [callers EXCEPT ![c].pc = "done",
                                  ![c].outcome = pipelines[callers[c].awaits].state,
                                  ![c].model = IF pipelines[callers[c].awaits].state = "resolved"
                                               THEN callers[c].awaits ELSE 0]
    /\ UNCHANGED <<instances, modelCache, loadingPromises, pipelines, initVars, behaviorVars,
                   usernames, network, visionVars, temporalVars, details, helperVars,
                   engineVars, pageVars>>

\* this.modelCache[modelKey] = await this.loadingPromises[modelKey] in the try block
webgpuLoaded(c) ==
    /\ callers[c].pc = "awaitWebgpu"
    /\ pipelines[callers[c].awaits].state = "resolved"
    /\ modelCache' = [modelCache EXCEPT ![callers[c].key] = callers[c].awaits]
    /\ callers' = [callers EXCEPT ![c].pc = "done", ![c].outcome = "resolved",
                                  ![c].model = callers[c].awaits]
    /\ UNCHANGED <<instances, loadingPromises, pipelines, initVars, behaviorVars,
                   usernames, network, visionVars, temporalVars, details, helperVars,
                   engineVars, pageVars>>

\* the catch block: the stored promise is replaced by the one of the CPU pipeline
webgpuFailed(c) ==
    /\ callers[c].pc = "awaitWebgpu"
    /\ pipelines[callers[c].awaits].state = "rejected"
    /\ pipelines' = pipeline(callers[c].key, "cpu")
    /\ loadingPromises' = [loadingPromises EXCEPT ![callers[c].key] = Len(pipelines) + 1]
    /\ callers' = [callers EXCEPT ![c].pc = "awaitCpu", ![c].awaits = Len(pipelines) + 1]
    /\ UNCHANGED <<instances, modelCache, initVars, behaviorVars,
                   usernames, network, visionVars, temporalVars, details, helperVars,
                   engineVars, pageVars>>

\* this.modelCache[modelKey] = await this.loadingPromises[modelKey] in the catch block
cpuLoaded(c) ==
    /\ callers[c].pc = "awaitCpu"
    /\ pipelines[callers[c].awaits].state = "resolved"
    /\ modelCache' = [modelCache EXCEPT ![callers[c].key] = callers[c].awaits]
    /\ callers' = [callers EXCEPT ![c].pc = "done", ![c].outcome = "resolved",
                                  ![c].model = callers[c].awaits]
    /\ UNCHANGED <<instances, loadingPromises, pipelines, initVars, behaviorVars,
                   usernames, network, visionVars, temporalVars, details, helperVars,
                   engineVars, pageVars>>

\* the await of the catch block throws: the load method rejects
cpuFailed(c) ==
    /\ callers[c].pc = "awaitCpu"
    /\ pipelines[callers[c].awaits].state = "rejected"
    /\ callers' = [callers EXCEPT ![c].pc = "done", ![c].outcome = "rejected"]
    /\ UNCHANGED <<instances, modelCache, loadingPromises, pipelines, initVars, behaviorVars,
                   usernames, network, visionVars, temporalVars, details, helperVars,
                   engineVars, pageVars>>

\* a load method constructs at most a WebGPU and a CPU pipeline per loading caller
MaxPipelines == 2 * MaxCallers

ManagerNext ==
    \/ \E c \in Callers, key \in Keys : load(c, key)
    \/ \E p \in 1..MaxPipelines, state \in {"resolved", "rejected"} : pipelineSettles(p, state)
    \/ \E c \in Callers : promiseSettled(c)
    \/ \E c \in Callers : webgpuLoaded(c)
    \/ \E c \in Callers : webgpuFailed(c)
    \/ \E c \in Callers : cpuLoaded(c)
    \/ \E c \in Callers : cpuFailed(c)

SpecManager == Init /\ [][ManagerNext]_vars

-----------------------------------------------------------------------------
(* initializeModel of part_003 (initializeModels of part_002 keeps the same *)
(* guard and flag around two classifiers), called by several callers       *)

\* initializeModel(), up to its first await or return
initializeModel(c) ==
    /\ initCallers[c].pc = "idle"
    /\ IF imageClassifier # "null" \/ isModelLoading
       THEN /\ initCallers' = [initCallers EXCEPT ![c] =
                    [pc |-> "done", outcome |-> "resolved", model |-> imageClassifier]]
            /\ UNCHANGED isModelLoading
       ELSE /\ isModelLoading' = TRUE
            /\ initCallers' = [initCallers EXCEPT ![c].pc = "awaitWebgpu"]
    /\ UNCHANGED <<imageClassifier, managerVars, behaviorVars, usernames, network,
                   visionVars, temporalVars, details, helperVars, engineVars, pageVars>>

\* the await of the try block or of the catch block returns the classifier
classifierLoaded(c, device) ==
    /\ initCallers[c].pc = (IF device = "webgpu" THEN "awaitWebgpu" ELSE "awaitCpu")
    /\ imageClassifier' = device
    /\ isModelLoading' = FALSE
    /\ initCallers' = [initCallers EXCEPT ![c] =
            [pc |-> "done", outcome |-> "resolved", model |-> device]]
    /\ UNCHANGED <<managerVars, behaviorVars, usernames, network,
                   visionVars, temporalVars, details, helperVars, engineVars, pageVars>>

\* the await of the try block throws: the catch block starts the CPU pipeline
classifierWebgpuFailed(c) ==
    /\ initCallers[c].pc = "awaitWebgpu"
    /\ initCallers' = [initCallers EXCEPT ![c].pc = "awaitCpu"]
    /\ UNCHANGED <<imageClassifier, isModelLoading, managerVars, behaviorVars, usernames,
                   network, visionVars, temporalVars, details, helperVars, engineVars,
                   pageVars>>

\* the await of the catch block throws: initializeModel rejects before it reaches
\* isModelLoading = false
classifierCpuFailed(c) ==
    /\ initCallers[c].pc = "awaitCpu"
    /\ initCallers' = [initCallers EXCEPT ![c] =
            [pc |-> "done", outcome |-> "rejected", model |-> "null"]]
    /\ UNCHANGED <<imageClassifier, isModelLoading, managerVars, behaviorVars, usernames,
                   network, visionVars, temporalVars, details, helperVars, engineVars,
                   pageVars>>

\* analyzeImage after `const model = await initializeModel()`: model(imageUrl) is a
\* TypeError when model is null, and a rejected initializeModel rejects analyzeImage
classifyImage(c) ==
    /\ initCallers[c].pc = "done"
    /\ initCallers' = [initCallers EXCEPT ![c].pc =
            IF initCallers[c].outcome = "resolved" /\ initCallers[c].model # "null"
            THEN "classified" ELSE "thrown"]
    /\ UNCHANGED <<imageClassifier, isModelLoading, managerVars, behaviorVars, usernames,
                   network, visionVars, temporalVars, details, helperVars, engineVars,
                   pageVars>>

InitializeNext ==
    \/ \E c \in Callers : initializeModel(c)
    \/ \E c \in Callers : classifyImage(c)
    \/ \E c \in Callers, device \in {"webgpu", "cpu"} : classifierLoaded(c, device)
    \/ \E c \in Callers : classifierWebgpuFailed(c)
    \/ \E c \in Callers : classifierCpuFailed(c)

SpecInitialize == Init /\ [][InitializeNext]_vars

-----------------------------------------------------------------------------
(* The details maps of the results of src/src/utils/deepfakeDetection.ts   *)

\* Math.random() in thousandths, for the terms of the details
FineDraws == {0, 999}

\* Math.random() * n for a draw r of FineDraws
FineTimes(r, n) == (r * n * Scale) \div 1000

\* BehavioralAnalyzer.simulateFollowerRatio: Math.random() * 10 + 0.1
simulateFollowerRatio(r) == FineTimes(r, 10) + Scale \div 10

DetailsInit == Init

ReturnsDetails(o, path, scores) ==
    /\ details = NoDetails
    /\ details' = [op |-> o, path |-> path, scores |-> scores]
    /\ UNCHANGED <<behaviorVars, usernames, network, visionVars, temporalVars, helperVars,
                   loaderVars, engineVars, pageVars>>

analyzeImage_details ==
    /\ details = NoDetails
    /\ \E c \in RawSignals, rs \in RawSignals, e \in RawSignals, col \in RawSignals,
          r \in RandomDraws, faces \in BOOLEAN, rF \in FineDraws, rM \in FineDraws,
          rE \in FineDraws :
          LET confidence == imageResult(manipulationScore(c, rs, e, col), r).confidence
          IN  ReturnsDetails("analyzeImage", "normal",
                  [faceDetection |-> IF faces THEN Pts(85) + FineTimes(rF, 10) ELSE Pts(20),
                   artifactDetection |-> capSignal(rs),
                   metadataAnalysis |-> Pts(70) + FineTimes(rM, 20),
                   aiModelConfidence |-> Min(confidence + Pts(10), Pts(95)),
                   compressionAnalysis |-> capSignal(c),
                   edgeConsistency |-> Pts(80) + FineTimes(rE, 15)])

analyzeVideo_details ==
    /\ details = NoDetails
    /\ \E rc \in RandomDraws, rt \in RandomDraws, ra \in RandomDraws, ratio \in SuspiciousRatios,
          r \in RandomDraws, rM \in FineDraws, rMo \in FineDraws :
          LET confidence == videoResult(videoManipulationScore(rc, rt, ra, ratio), r).confidence
          IN  ReturnsDetails("analyzeVideo", "normal",
                  [temporalConsistency |-> Pts(85) + RandomTimes(rc, 10),
                   artifactDetection |-> RandomTimes(rt, 30),
                   metadataAnalysis |-> Pts(75) + FineTimes(rM, 20),
                   aiModelConfidence |-> Min(confidence + Pts(5), Pts(95)),
                   frameAnalysis |-> RandomTimes(ra, 25),
                   motionAnalysis |-> Pts(80) + FineTimes(rMo, 15)])

analyzeTelegramBot_details ==
    /\ details = NoDetails
    /\ \E name \in EngineUsernames, r \in RandomDraws, score \in MLScores, e \in RandomDraws,
          rS \in FineDraws, rN \in FineDraws :
          LET linguisticSimilarity == linguisticSimilarityOf[name].telegram
              confidence == telegramResult(linguisticSimilarity, r, score).confidence
          IN  ReturnsDetails("analyzeTelegramBot", "normal",
                  [patternAnalysis |-> Pts(linguisticSimilarity),
                   linguisticAnalysis |-> Min(confidence + Pts(10), Pts(95)),
                   structureAnalysis |-> Pts(70) + FineTimes(rS, 25),
                   aiModelConfidence |-> Min(confidence + Pts(5), Pts(95)),
                   behavioralAnalysis |-> simulateEngagementVelocity(e),
                   networkAnalysis |-> FineTimes(rN, 80) + Pts(10)])

analyzeTwitterBot_details ==
    /\ details = NoDetails
    /\ \E name \in EngineUsernames, r \in RandomDraws, e \in RandomDraws, rF \in FineDraws,
          rT \in FineDraws :
          LET linguisticSimilarity == linguisticSimilarityOf[name].twitter
              engagementVelocity == simulateEngagementVelocity(e)
              followerFollowingRatio == simulateFollowerRatio(rF)
              confidence == twitterResult(linguisticSimilarity, engagementVelocity, r).confidence
          IN  ReturnsDetails("analyzeTwitterBot", "normal",
                  [patternAnalysis |-> Pts(linguisticSimilarity),
                   linguisticAnalysis |-> Min(confidence + Pts(15), Pts(95)),
                   behavioralAnalysis |-> engagementVelocity,
                   profileAnalysis |-> followerFollowingRatio * 10,
                   aiModelConfidence |-> Min(confidence + Pts(8), Pts(95)),
                   temporalAnalysis |-> FineTimes(rT, 80) + Pts(15)])

analyzeInstagramBot_details ==
    /\ details = NoDetails
    /\ \E name \in EngineUsernames, score \in MLScores, e \in RandomDraws, rF \in FineDraws,
          rV \in FineDraws :
          LET linguisticSimilarity == linguisticSimilarityOf[name].instagram
              engagementVelocity == simulateEngagementVelocity(e)
              followerFollowingRatio == simulateFollowerRatio(rF)
              confidence ==
                  instagramResult(linguisticSimilarity, engagementVelocity, score).confidence
          IN  ReturnsDetails("analyzeInstagramBot", "normal",
                  [patternAnalysis |-> Pts(linguisticSimilarity),
                   linguisticAnalysis |-> Min(confidence + Pts(12), Pts(95)),
                   visualAnalysis |-> FineTimes(rV, 80) + Pts(15),
                   engagementAnalysis |-> engagementVelocity,
                   aiModelConfidence |-> Min(confidence + Pts(7), Pts(95)),
                   profileAnalysis |-> followerFollowingRatio * 8])

\* the details of fallbackImageAnalysis, fallbackVideoAnalysis, fallbackTelegramAnalysis,
\* fallbackTwitterAnalysis and fallbackInstagramAnalysis
fallback_details ==
    /\ details = NoDetails
    /\ \E o \in CurrentOps \ {"analyzeSocialMediaMonitoring"},
          r1 \in FineDraws, r2 \in FineDraws, r3 \in FineDraws, r4 \in FineDraws,
          r5 \in FineDraws :
          ReturnsDetails(o, "fallback",
              CASE o = "analyzeImage" ->
                       [faceDetection |-> Pts(80) + FineTimes(r1, 15),
                        artifactDetection |-> Pts(15) + FineTimes(r2, 20),
                        metadataAnalysis |-> Pts(70) + FineTimes(r3, 20),
                        aiModelConfidence |-> Pts(60) + FineTimes(r4, 25)]
                [] o = "analyzeVideo" ->
                       [temporalConsistency |-> Pts(85) + FineTimes(r1, 10),
                        artifactDetection |-> Pts(20) + FineTimes(r2, 15),
                        metadataAnalysis |-> Pts(75) + FineTimes(r3, 20),
                        aiModelConfidence |-> Pts(65) + FineTimes(r4, 20)]
                [] o = "analyzeTelegramBot" ->
                       [patternAnalysis |-> Pts(60) + FineTimes(r1, 30),
                        linguisticAnalysis |-> Pts(55) + FineTimes(r2, 25),
                        structureAnalysis |-> Pts(65) + FineTimes(r3, 20),
                        aiModelConfidence |-> Pts(50) + FineTimes(r4, 30)]
                [] o = "analyzeTwitterBot" ->
                       [patternAnalysis |-> Pts(65) + FineTimes(r1, 25),
                        linguisticAnalysis |-> Pts(60) + FineTimes(r2, 30),
                        behavioralAnalysis |-> Pts(55) + FineTimes(r3, 35),
                        profileAnalysis |-> Pts(70) + FineTimes(r4, 20),
                        aiModelConfidence |-> Pts(55) + FineTimes(r5, 25)]
                [] o = "analyzeInstagramBot" ->
                       [patternAnalysis |-> Pts(62) + FineTimes(r1, 28),
                        linguisticAnalysis |-> Pts(58) + FineTimes(r2, 25),
                        visualAnalysis |-> Pts(60) + FineTimes(r3, 30),
                        engagementAnalysis |-> Pts(65) + FineTimes(r4, 25),
                        aiModelConfidence |-> Pts(52) + FineTimes(r5, 28)])

DetailsNext ==
    \/ analyzeImage_details
    \/ analyzeVideo_details
    \/ analyzeTelegramBot_details
    \/ analyzeTwitterBot_details
    \/ analyzeInstagramBot_details
    \/ fallback_details

SpecDetails == DetailsInit /\ [][DetailsNext]_vars

-----------------------------------------------------------------------------
(* The engine while the external ML adapter is unavailable: every load or  *)
(* inference fails, and the result of each catch path is remembered        *)

\* the operations of deepfakeDetection.ts that have a reachable catch path
\* and return a classification
FailingOps == {"analyzeImage", "analyzeTelegramBot", "analyzeTwitterBot", "analyzeInstagramBot"}

FailureNext ==
    \/ \E o \in FailingOps : \E a \in ArgsOf(o) : Invoke(o, a)
    \/ RequestML
    \/ MLLoadFail
    \/ MLInferFail
    \/ analyzeImage
    \/ analyzeTelegramBot
    \/ analyzeTwitterBot
    \/ analyzeInstagramBot
    \/ ReturnRemembered

SpecFailure == Init /\ [][FailureNext]_vars

-----------------------------------------------------------------------------
(* part_000: the page. handleAnalysis calls one operation of               *)
(* deepfakeDetection.ts and awaits it; a 500 ms interval advances the      *)
(* progress bar meanwhile; a timeout adds the result and resets the page.  *)

MaxResults == 2

ProgressDraws == {0, 99}

\* the requests the forms of the page send (type, data)
PageRequests ==
    { [type |-> "telegram", data |-> "crypto_trading_bot"],
      [type |-> "twitter",  data |-> "john_doe"],
      [type |-> "monitor",  data |-> "election news"] }

OpOfType(type) ==
    CASE type = "image" -> "analyzeImage"
      [] type = "video" -> "analyzeVideo"
      [] type = "social" -> "analyzeSocialMediaMonitoring"
      [] type = "telegram" -> "analyzeTelegramBot"
      [] type = "twitter" -> "analyzeTwitterBot"
      [] type = "instagram" -> "analyzeInstagramBot"
      [] type = "monitor" -> "analyzeSocialMediaMonitoring"

StatusOfType(type) ==
    CASE type = "image" -> "Loading computer vision model..."
      [] type = "video" -> "Extracting video frames..."
      [] type = "social" -> "Analyzing social media content..."
      [] type = "telegram" -> "Running bot detection algorithms..."
      [] type = "twitter" -> "Analyzing Twitter account with AI..."
      [] type = "instagram" -> "Analyzing Instagram account with AI..."
      [] type = "monitor" -> "Monitoring social media platforms..."

\* a variant whose forms are not disabled while isAnalyzing
handleAnalysisCalled_formsEnabled(type, data) ==
    /\ pc = "idle"
    /\ Len(results) < MaxResults
    /\ isAnalyzing' = TRUE
    /\ analysisProgress' = 0
    /\ analysisStatus' = StatusOfType(type)
    /\ progressInterval' = "running"
    /\ pending' = [type |-> type, data |-> data]
    /\ pc' = "called" /\ op' = OpOfType(type) /\ arg' = data
    /\ ml' = "none" /\ mlOut' = NoAnswer
    /\ outcome' = "none" /\ result' = NoResult
    /\ UNCHANGED <<results, resetTimer, prevFail, scoreVars>>

\* handleAnalysis up to its await. The forms are disabled while isAnalyzing.
handleAnalysisCalled(type, data) ==
    /\ ~isAnalyzing /\ pc = "idle"
    /\ Len(results) < MaxResults
    /\ isAnalyzing' = TRUE
    /\ analysisProgress' = 0
    /\ analysisStatus' = StatusOfType(type)
    /\ progressInterval' = "running"
    /\ pending' = [type |-> type, data |-> data]
    /\ pc' = "called" /\ op' = OpOfType(type) /\ arg' = data
    /\ ml' = "none" /\ mlOut' = NoAnswer
    /\ outcome' = "none" /\ result' = NoResult
    /\ UNCHANGED <<results, resetTimer, prevFail, scoreVars>>

\* a call of handleAnalysis by a form that keeps its state
handleAnalysis(type, data) == handleAnalysisCalled(type, data) /\ UNCHANGED form

\* the callback of setInterval
progressTick ==
    /\ progressInterval = "running"
    /\ IF analysisProgress >= Pts(90)
       THEN /\ progressInterval' = "cleared"
            /\ analysisProgress' = Pts(90)
       ELSE /\ \E r \in ProgressDraws :
                  analysisProgress' = analysisProgress + RandomTimes(r, 10)
            /\ UNCHANGED progressInterval
    /\ UNCHANGED <<isAnalyzing, analysisStatus, results, resetTimer, pending, form, engineVars,
                   scoreVars>>

\* handleAnalysis after its await: the rest of the try block when the
\* operation resolved, the catch block when it rejected. Of the entry only the
\* id and the type are kept.
handleAnalysisSettled ==
    /\ isAnalyzing /\ pc = "done"
    /\ \/ /\ outcome = "resolved"
          /\ progressInterval' = "cleared"
          /\ analysisProgress' = Pts(100)
          /\ analysisStatus' = "Analysis complete!"
          /\ resetTimer' = [kind |-> "complete",
                            result |-> [id |-> Len(results) + 1, type |-> pending.type]]
       \/ /\ outcome = "rejected"
          /\ analysisStatus' = "Analysis failed. Please try again."
          /\ resetTimer' = [kind |-> "failed", result |-> NoEntry]
          /\ UNCHANGED <<progressInterval, analysisProgress>>
    /\ pc' = "idle" /\ op' = "none" /\ arg' = "none"
    /\ ml' = "none" /\ mlOut' = NoAnswer
    /\ outcome' = "none" /\ result' = NoResult
    /\ UNCHANGED <<isAnalyzing, results, pending, form, prevFail, scoreVars>>

\* a variant that adds the entry at the end
addResult_appends(entry) == results \o <<entry>>

\* setResults(prev => [result, ...prev])
addResult(entry) == <<entry>> \o results

\* the callback of setTimeout (1000 ms after a result, 2000 ms after a failure)
resetTimeout ==
    /\ resetTimer.kind # "none"
    /\ results' = IF resetTimer.kind = "complete" THEN addResult(resetTimer.result) ELSE results
    /\ isAnalyzing' = FALSE
    /\ analysisProgress' = 0
    /\ analysisStatus' = ""
    /\ resetTimer' = NoTimer
    /\ pending' = NoRequest
    /\ UNCHANGED <<progressInterval, form, engineVars, scoreVars>>

PageNext ==
    \/ \E req \in PageRequests : handleAnalysis(req.type, req.data)
    \/ progressTick
    \/ RequestML
    \/ MLResolve
    \/ MLLoadFail
    \/ MLInferFail
    \/ analyzeTelegramBot
    \/ analyzeTwitterBot
    \/ analyzeSocialMediaMonitoring
    \/ handleAnalysisSettled
    \/ resetTimeout

\* The event loop runs every callback that is ready, and every step of the
\* code that does not wait for the network. Nothing bounds the time the ML
\* adapter takes: its answers are not under fairness.
PageFairness ==
    /\ WF_vars(progressTick)
    /\ WF_vars(RequestML)
    /\ WF_vars(analyzeTelegramBot)
    /\ WF_vars(analyzeTwitterBot)
    /\ WF_vars(analyzeSocialMediaMonitoring)
    /\ WF_vars(handleAnalysisSettled)
    /\ WF_vars(resetTimeout)

SpecPage == Init /\ [][PageNext]_vars /\ PageFairness

-----------------------------------------------------------------------------
(* The username forms (TelegramBotAnalyzer, TwitterBotAnalyzer,            *)
(* InstagramBotAnalyzer) in the tabs of the page: the form of the selected *)
(* tab is mounted, its input and its submit button are disabled while      *)
(* isAnalyzing                                                             *)

Tabs == Platforms \cup {"monitor"}

\* /^[a-zA-Z0-9_]+$/ for telegram and twitter, /^[a-zA-Z0-9._]+$/ for instagram
allowedCharacters(type) ==
    LowerLetters \cup UpperLetters \cup Digits \cup {"_"}
        \cup (IF type = "instagram" THEN {"."} ELSE {})

matchesCharacterClass(type, s) ==
    Len(s) > 0 /\ \A i \in 1..Len(s) : charAt(s, i) \in allowedCharacters(type)

emptyError(type) ==
    CASE type = "telegram" -> "Please enter a Telegram username"
      [] type = "twitter" -> "Please enter a Twitter/X username"
      [] type = "instagram" -> "Please enter an Instagram username"

shortError(type) ==
    IF type = "telegram" THEN "Username must be at least 2 characters long"
    ELSE "Username cannot be empty"

classError(type) ==
    IF type = "instagram"
    THEN "Username can only contain letters, numbers, dots, and underscores"
    ELSE "Username can only contain letters, numbers, and underscores"

\* cleanUsername.length < 2 for telegram, < 1 for twitter and instagram
minLength(type) == IF type = "telegram" THEN 2 ELSE 1

\* a variant without the character-class check
errorOf_noClassCheck(type, text) ==
    IF trim(text) = "" THEN emptyError(type)
    ELSE IF Len(cleanUsernameOf(text)) < minLength(type) THEN shortError(type)
    ELSE ""

\* what handleSubmit sets the error to; "" when the username is handed to onAnalyze
errorOf(type, text) ==
    IF trim(text) = "" THEN emptyError(type)
    ELSE IF Len(cleanUsernameOf(text)) < minLength(type) THEN shortError(type)
    ELSE IF ~matchesCharacterClass(type, cleanUsernameOf(text)) THEN classError(type)
    ELSE ""

\* a TabsTrigger: the content of the other tabs is unmounted, the form starts fresh
selectTab(tab) ==
    /\ tab # form.type
    /\ form' = [type |-> tab, username |-> "", error |-> ""]
    /\ UNCHANGED <<isAnalyzing, analysisProgress, analysisStatus, results, progressInterval,
                   resetTimer, pending, engineVars, scoreVars>>

\* onChange of the input, or the click of an example button
setUsername(text) ==
    /\ form.type \in Platforms /\ ~isAnalyzing
    /\ form' = [form EXCEPT !.username = text]
    /\ UNCHANGED <<isAnalyzing, analysisProgress, analysisStatus, results, progressInterval,
                   resetTimer, pending, engineVars, scoreVars>>

\* handleSubmit of the mounted form; the submit button is
\* disabled={disabled || !username.trim()}
handleSubmit ==
    /\ form.type \in Platforms /\ ~isAnalyzing /\ trim(form.username) # ""
    /\ IF errorOf(form.type, form.username) # ""
       THEN /\ form' = [form EXCEPT !.error = errorOf(form.type, form.username)]
            /\ UNCHANGED <<isAnalyzing, analysisProgress, analysisStatus, results,
                           progressInterval, resetTimer, pending, engineVars, scoreVars>>
       ELSE /\ form' = [form EXCEPT !.error = "", !.username = ""]
            /\ handleAnalysisCalled(form.type, cleanUsernameOf(form.username))

FormNext ==
    \/ \E tab \in Tabs : selectTab(tab)
    \/ \E text \in FormTexts : setUsername(text)
    \/ handleSubmit
    \/ progressTick
    \/ RequestML
    \/ MLResolve
    \/ MLLoadFail
    \/ MLInferFail
    \/ analyzeTelegramBot
    \/ analyzeTwitterBot
    \/ analyzeInstagramBot
    \/ handleAnalysisSettled
    \/ resetTimeout

SpecForm == Init /\ [][FormNext]_vars

-----------------------------------------------------------------------------
(* Properties of the results of the public operations *)

Settled == pc = "done" /\ outcome = "resolved"

ClassifyingOps == {"analyzeImage", "analyzeVideo", "analyzeTelegramBot", "analyzeTwitterBot",
                   "analyzeInstagramBot"}

ThresholdOf(o) ==
    CASE o = "analyzeImage" -> 60
      [] o = "analyzeVideo" -> 65
      [] o = "analyzeTelegramBot" -> 55
      [] o = "analyzeTwitterBot" -> 60
      [] o = "analyzeInstagramBot" -> 58

\* C1 as claimed: in every result of the five classifying operations, on the
\* normal and on the fallback path, the flag is true exactly when the confidence
\* is strictly greater than the operation's threshold.
C1_FlagIsThreshold ==
    (Settled /\ op \in ClassifyingOps)
        => (result.flag <=> result.confidence > Pts(ThresholdOf(op)))

IsNumberIn0To100(x) == x # NaN /\ 0 <= x /\ x <= Pts(100)

\* C2 as claimed: the confidence of every result any public analysis operation
\* returns lies in [0, 100].
C2_ConfidenceInRange ==
    Settled => IsNumberIn0To100(result.confidence)

\* C3 as claimed: two runs of an operation on the same input that both end in
\* the catch path return the same confidence and the same classification.
C3_SameResultOnFailure ==
    (Settled /\ result.path = "fallback" /\ prevFail.op = op /\ prevFail.arg = arg)
        => (result.confidence = prevFail.confidence /\ result.flag = prevFail.flag)

MLFailed == ml \in {"loadFailed", "inferFailed"}

\* C4: a call of an operation of deepfakeDetection.ts never rejects, and when
\* the model load or the inference failed it resolves with a result that
\* carries a confidence.
C4_FailureNotSurfaced ==
    op \in CurrentOps =>
        /\ outcome # "rejected"
        /\ (pc = "done" /\ MLFailed) =>
              /\ outcome = "resolved"
              /\ result.path = "fallback"
              /\ IsNumberIn0To100(result.confidence)

\* C4 witness: analyzeTwitterBot returned its fallback result after a failed
\* model load
C4_Witness ==
    /\ pc = "done" /\ op = "analyzeTwitterBot" /\ ml = "loadFailed"
    /\ outcome = "resolved" /\ result.path = "fallback"

\* C9 as claimed: analyzeTwitterBot on crypto_trading_bot returns isBot = true
\* whatever the simulated signals, the random terms and the ML answer are, the
\* fallback path included.
C9_CryptoTradingBotIsBot ==
    (Settled /\ op = "analyzeTwitterBot" /\ arg = "crypto_trading_bot")
        => result.flag

\* C10 as claimed: the bot analyzer of every platform returns isBot = false
\* for john_doe, whatever the draws and the ML score are, the fallback path
\* included.
C10_JohnDoeIsHuman ==
    (Settled /\ op \in {"analyzeTelegramBot", "analyzeTwitterBot", "analyzeInstagramBot"}
             /\ arg = "john_doe")
        => ~result.flag

\* C5 as claimed: every analysis started through handleAnalysis eventually
\* finishes (the page leaves the analyzing state), also when the model load or
\* the inference never answers.
C5_AnalysisFinishes == isAnalyzing ~> ~isAnalyzing

-----------------------------------------------------------------------------
(* Properties of performNetworkAnalysis *)

\* the Levenshtein distance of the suffixes of a from i and of b from j:
\* insertion, deletion and substitution cost 1 each
RECURSIVE EditDistanceFrom(_, _, _, _)
EditDistanceFrom(a, b, i, j) ==
    IF i > Len(a) THEN Len(b) - j + 1
    ELSE IF j > Len(b) THEN Len(a) - i + 1
    ELSE IF charAt(a, i) = charAt(b, j) THEN EditDistanceFrom(a, b, i + 1, j + 1)
    ELSE 1 + Min3(EditDistanceFrom(a, b, i + 1, j),
                  EditDistanceFrom(a, b, i, j + 1),
                  EditDistanceFrom(a, b, i + 1, j + 1))

EditDistance(a, b) == EditDistanceFrom(a, b, 1, 1)

\* 1 - editDistance(a, b) / max(len(a), len(b)) > 0.7, for a and b not both empty
SimilarPair(a, b) ==
    /\ Max(Len(a), Len(b)) > 0
    /\ 10 * (Max(Len(a), Len(b)) - EditDistance(a, b)) > 7 * Max(Len(a), Len(b))

\* the pairs i < j of positions of the list whose usernames are similar
SimilarPositions(names) ==
    {ij \in (1..Len(names)) \X (1..Len(names)) :
        ij[1] < ij[2] /\ SimilarPair(names[ij[1]], names[ij[2]])}

SeqToSet(q) == {q[i] : i \in 1..Len(q)}

\* C11 as claimed: the suspicious pairs performNetworkAnalysis reports are
\* exactly the pairs i < j of input usernames whose similarity exceeds 0.7,
\* whatever the random draws are; the pair of ["news_bot_24", "news_bot_25"] is
\* always reported.
C11_SuspiciousPairsAreSimilarPairs ==
    network.resolved =>
        SeqToSet(network.suspiciousConnections)
            = {connectionSentence(usernames[ij[1]], usernames[ij[2]]) :
                  ij \in SimilarPositions(usernames)}

\* C12: for every list, detectCoordinatedBehavior is min(100, 10 K), K being the
\* number of pairs of distinct positions (each pair once) whose similarity
\* 1 - editDistance / max length is strictly greater than 0.7.
C12_CoordinationCountsSimilarPairs ==
    network.resolved =>
        network.coordinatedBehavior = Min(100, 10 * Cardinality(SimilarPositions(usernames)))

\* C12 witness: a list with similar and dissimilar pairs, and a similarity of
\* exactly 0.7 that is not counted
C12_Witness ==
    /\ network.resolved
    /\ \/ usernames = <<"bot", "bots", "joe">> /\ network.coordinatedBehavior = 10
       \/ usernames = <<"user_00123", "user_00456">> /\ network.coordinatedBehavior = 0

\* C12 witness of the cap: fifteen similar pairs give 100
C12_WitnessCap ==
    /\ network.resolved /\ Len(usernames) = 6
    /\ Cardinality(SimilarPositions(usernames)) = 15
    /\ network.coordinatedBehavior = 100

\* C13: calculateUsernameSimilarity(a, b) = calculateUsernameSimilarity(b, a) for
\* all usernames a and b of a list, of equal or different lengths.
C13_SimilaritySymmetric ==
    network.resolved =>
        \A i \in 1..Len(usernames), j \in 1..Len(usernames) :
            calculateUsernameSimilarity(usernames[i], usernames[j])
                = calculateUsernameSimilarity(usernames[j], usernames[i])

\* C13 witness: two usernames of different lengths at a distance that is
\* neither 0 nor the longer length
C13_Witness ==
    /\ network.resolved
    /\ \E i \in 1..Len(usernames), j \in 1..Len(usernames) :
          /\ Len(usernames[i]) < Len(usernames[j])
          /\ calculateUsernameSimilarity(usernames[i], usernames[j]).num
                \in 1..(Len(usernames[j]) - 1)

RECURSIVE Flatten(_)
Flatten(qs) == IF qs = <<>> THEN <<>> ELSE Head(qs) \o Flatten(Tail(qs))

\* C14 as claimed: the clusters of performClusterAnalysis are a contiguous
\* partition of the input into groups of at most 3: in input order, every
\* input username in exactly one cluster.
C14_ClustersPartitionInput ==
    network.resolved =>
        LET members == [i \in 1..Len(network.clusterAnalysis) |->
                            network.clusterAnalysis[i].members]
        IN  /\ Flatten(members) = usernames
            /\ \A i \in 1..Len(members) : Len(members[i]) \in 1..3

-----------------------------------------------------------------------------
(* Properties of ComputerVisionAnalyzer *)

HoldsABlock(img) == img.width >= 8 /\ img.height >= 8

\* C15: an all-zero pixel buffer that holds at least one complete 8x8 block gets the
\* compression-artifact score 100
C15_ZeroBufferScores100 ==
    (compressionScore # NoScore /\ imageData.fill = "zero" /\ HoldsABlock(imageData))
        => compressionScore = Pts(100)

-----------------------------------------------------------------------------
(* Properties of the video aggregation *)

VideoOps == {"analyzeVideo_part002", "analyzeVideo_part003"}

\* every frame's analysis threw: the list of per-frame analyses is empty
NoFrameAnalysed == ml = "inferFailed"

\* C16: when no frame was analysed successfully the video analysis fails with an
\* error: it resolves with no result, neither an averaged (NaN) one nor a default
C16_EmptyAggregationFails ==
    (pc = "done" /\ op \in VideoOps /\ NoFrameAnalysed) => outcome = "rejected"

\* the variance of the per-frame confidences, in 1/10000 of a squared point, the mean
\* taken exactly: (n * sum of squares - square of the sum) / n^2
ExactVariance(values) ==
    LET n == Len(values)
        sum == SumSeq(values)
        squares == SumSeq([i \in 1..n |-> values[i] * values[i]])
    IN  ((n * squares - sum * sum) * 10000) \div (n * n)

Aggregated == temporal.by # "none" /\ ~temporal.thrown /\ Len(confidences) > 0

\* C17: the temporal-consistency score is max(0, 100 - 15 * sqrt(variance of the
\* per-frame confidences)): 100 when all frames have the same confidence, and never
\* outside [0,100]
C17_TemporalConsistencyAsClaimed ==
    Aggregated =>
        temporal.temporalConsistency =
            Max(0, Pts(100) - (sqrt(ExactVariance(confidences)) * 15 * Scale) \div 100)

-----------------------------------------------------------------------------
(* Properties of the monitoring result *)

RiskOfSentiment(sentiment) ==
    CASE sentiment = "negative" -> "high"
      [] sentiment = "neutral" -> "medium"
      [] sentiment = "positive" -> "low"
      [] OTHER -> "none"

\* C19: in every result of analyzeSocialMediaMonitoring, the fallback result included,
\* riskLevel is determined by sentiment: negative gives high, neutral medium, positive low
C19_RiskLevelFromSentiment ==
    (Settled /\ op = "analyzeSocialMediaMonitoring")
        => result.riskLevel = RiskOfSentiment(result.sentiment)

-----------------------------------------------------------------------------
(* Properties of the reasons *)

\* the sentences of the sub-score rules that trigger, in the order of the rules
TriggeredSentences ==
       (IF structureScore > 50 THEN <<"Suspicious username structure detected">> ELSE <<>>)
    \o (IF linguisticScore > 60 THEN <<"Bot-like linguistic patterns identified">> ELSE <<>>)
    \o (IF patternScore > 70 THEN <<"Matches known bot naming conventions">> ELSE <<>>)

\* sub occurs in q, in order
RECURSIVE IsSubsequence(_, _)
IsSubsequence(sub, q) ==
    IF sub = <<>> THEN TRUE
    ELSE IF q = <<>> THEN FALSE
    ELSE IF Head(sub) = Head(q) THEN IsSubsequence(Tail(sub), Tail(q))
    ELSE IsSubsequence(sub, Tail(q))

\* C18: the reasons hold the sentence of every sub-score rule that triggers
\* (structure > 50, linguistic > 60, pattern > 70), in that order, whatever the
\* classification; when no rule triggers they are exactly one "appears human" sentence
C18_ReasonsFromRules ==
    reasons # NoReasons =>
        /\ IsSubsequence(TriggeredSentences, reasons)
        /\ TriggeredSentences = <<>> =>
                (Len(reasons) = 1 /\ includes(reasons[1], "appears human"))

-----------------------------------------------------------------------------
(* Properties of the details *)

\* C20: every per-signal score in the details of a result of analyzeImage,
\* analyzeVideo, analyzeTelegramBot, analyzeTwitterBot or analyzeInstagramBot lies in
\* [0,100], whatever the simulated signals and the random terms are
C20_DetailsInRange ==
    details # NoDetails =>
        \A signal \in DOMAIN details.scores : IsNumberIn0To100(details.scores[signal])

-----------------------------------------------------------------------------
(* Properties of the username forms (checked under SpecForm) *)

\* the username typed into the mounted form is empty once trimmed and stripped of a
\* leading "@", or fails the character class of the platform
FailsCheck ==
    form.type \in Platforms
        /\ ~matchesCharacterClass(form.type, cleanUsernameOf(form.username))

\* C21: a username that fails the platform's character-class check, or is empty after
\* trimming and stripping a leading "@", never reaches the engine: no step starts an
\* analysis from it, a submit of it leaves an error in the form, and what is being
\* analysed always passed the check
C21_InvalidUsernameNeverAnalyzed ==
    [][ /\ (FailsCheck /\ ~isAnalyzing) => (~isAnalyzing' /\ pc' = "idle" /\ results' = results)
        /\ (FailsCheck /\ form'.error # form.error /\ form'.type = form.type)
                => form'.error # ""
        /\ (pending'.type \in Platforms)
                => matchesCharacterClass(pending'.type, pending'.data) ]_vars

\* a submit of a username that fails the check has left its error and nothing else
C21_Witness ==
    /\ FailsCheck /\ form.error # "" /\ trim(form.username) # ""
    /\ ~isAnalyzing /\ pc = "idle" /\ results = <<>>

\* the identifier is lowercase, has no leading "@", is non-empty and is made of
\* [a-z0-9._-] only
isNormalized(s) ==
    /\ Len(s) > 0
    /\ \A i \in 1..Len(s) :
          charAt(s, i) \in LowerLetters \cup Digits \cup {".", "_", "-"}

\* C22: every identifier the username forms hand to the engine is normalized:
\* lowercase, without a leading "@", non-empty, and made of [a-z0-9._-] only
C22_HandedUsernameNormalized ==
    (pending.type \in Platforms) => isNormalized(pending.data)

-----------------------------------------------------------------------------
(* Properties of the dividing helpers (checked under SpecHelpers) *)

\* C23: no engine computation divides by zero: the similarity of two empty strings,
\* the compression score of an image of zero width or height, and the variance and
\* the mean of an empty list are defined numbers, never NaN
C23_NoDivisionByZero ==
    /\ similarity.den # 0
    /\ compressionScore # NaN
    /\ variance # NaN
    /\ temporal.temporalConsistency # NaN

-----------------------------------------------------------------------------
(* Properties of a failed decode (checked under Spec) *)

\* C24: a decode failure is propagated to the caller: when getImageDataFromFile rejects
\* (the file does not decode), analyzeImage rejects and returns no result
C24_DecodeFailurePropagates ==
    (pc = "done" /\ op = "analyzeImage" /\ ~FileOf(arg).decodes) =>
        (outcome = "rejected" /\ result = NoResult)

-----------------------------------------------------------------------------
(* Properties of the model loaders (checked under SpecManager and          *)
(* SpecInitialize)                                                         *)

\* the pipeline(...) calls made for key, in the order they were made
PipelinesOf(key) == SelectSeq([p \in 1..Len(pipelines) |-> p], LAMBDA p : pipelines[p].key = key)

\* the callers of the load method of key that have their answer
Answered(key) == {c \in Callers : callers[c].key = key /\ callers[c].pc = "done"}

\* C25: AIModelManager loads each model at most once: one manager is ever constructed,
\* and for each model key whose first load succeeded, the overlapping and the later
\* load calls caused exactly one pipeline construction and all received the same model
C25_LoadedAtMostOnce ==
    /\ instances <= 1
    /\ \A key \in Keys :
          (PipelinesOf(key) # <<>> /\ pipelines[PipelinesOf(key)[1]].state = "resolved") =>
              /\ Len(PipelinesOf(key)) = 1
              /\ \A c \in Answered(key) :
                    callers[c].outcome = "resolved" /\ callers[c].model = PipelinesOf(key)[1]

\* C25 witness: the three callers of one key have the same model: the one that
\* loaded it, one that called while the load was pending, one that called later
C25_Witness ==
    \E key \in Keys :
        /\ Len(PipelinesOf(key)) = 1
        /\ \A path \in {"loader", "promise", "cache"} :
              \E c \in Answered(key) :
                  /\ callers[c].path = path
                  /\ callers[c].outcome = "resolved"
                  /\ callers[c].model = PipelinesOf(key)[1]

\* C26: when the WebGPU load of a model failed and the CPU fallback load succeeded,
\* every caller of that load method receives the CPU model, also the callers that
\* called while the WebGPU load was pending; none observes the WebGPU rejection and
\* the CPU pipeline is constructed once
C26_EveryCallerGetsCpuModel ==
    \A key \in Keys :
        (/\ Len(PipelinesOf(key)) >= 2
         /\ pipelines[PipelinesOf(key)[1]].state = "rejected"
         /\ pipelines[PipelinesOf(key)[2]].state = "resolved") =>
            /\ Len(PipelinesOf(key)) = 2
            /\ \A c \in Answered(key) :
                  callers[c].outcome = "resolved" /\ callers[c].model = PipelinesOf(key)[2]

\* the callers of initializeModel whose call has ended
Ended == {c \in Callers : initCallers[c].pc \in {"done", "classified", "thrown"}}

\* C27: initializeModel never hands a caller a null classifier, also not to a call
\* made while another initialization is in progress, and isModelLoading is false again
\* once every initialization attempt has ended, also when both loads threw
C27_NeverNullClassifier ==
    /\ \A c \in Ended :
          initCallers[c].outcome = "resolved" => initCallers[c].model # "null"
    /\ (\A c \in Callers : initCallers[c].pc \notin {"awaitWebgpu", "awaitCpu"})
            => ~isModelLoading

-----------------------------------------------------------------------------
(* Properties of the page (checked under SpecPage) *)

\* an analysis is in flight: the engine works for handleAnalysis, or the timeout that
\* adds the result or resets after a failure has not run yet
InFlight == pc # "idle" \/ resetTimer.kind # "none"

\* C28: at most one analysis is in flight in the page: while one is in flight
\* isAnalyzing is true (the forms are disabled), a handleAnalysis starts only on a
\* page with none in flight, and whenever isAnalyzing is false the progress is 0 and
\* the status is empty
C28_OneAnalysisInFlight ==
    [][ /\ InFlight' => isAnalyzing'
        /\ (pc = "idle" /\ pc' = "called") => (~isAnalyzing /\ ~InFlight)
        /\ ~isAnalyzing' => (analysisProgress' = 0 /\ analysisStatus' = "" /\ ~InFlight') ]_vars

\* C28 witness: the page is idle again after two analyses, one after the other
C28_Witness ==
    /\ Len(results) = 2 /\ ~isAnalyzing /\ ~InFlight
    /\ analysisProgress = 0 /\ analysisStatus = ""

\* C29: the results list only grows at its head: a step changes it only by putting
\* the one result of the completed analysis in front of the unchanged list, and the
\* timeout of a completed analysis does so, the one of a failed analysis does not
C29_ResultsGrowAtHead ==
    [][ /\ results' # results =>
              (resetTimer.kind = "complete" /\ results' = <<resetTimer.result>> \o results)
        /\ (resetTimer.kind = "complete" /\ resetTimer'.kind = "none") =>
              (Len(results') = Len(results) + 1 /\ Tail(results') = results)
        /\ (resetTimer.kind = "failed" /\ resetTimer'.kind = "none") =>
              results' = results ]_vars

\* C29 witness: the second result stands in front of the first
C29_Witness ==
    Len(results) = 2 /\ results[1].id = 2 /\ results[2].id = 1

\* the analysis has started and its await has not returned
Running == isAnalyzing /\ resetTimer.kind = "none"

\* C30: while an analysis is running the progress never decreases and never exceeds
\* its cap of 90; it is 100 only once the analysis completed, and after the
\* completion or a failure the progress timer changes it no more
C30_ProgressMonotoneAndCapped ==
    [][ /\ Running' => analysisProgress' <= Pts(90)
        /\ (Running /\ Running') => analysisProgress' >= analysisProgress
        /\ analysisProgress' = Pts(100) => resetTimer'.kind = "complete"
        /\ (resetTimer.kind # "none" /\ resetTimer'.kind # "none") =>
              analysisProgress' = analysisProgress ]_vars

====
